---- MODULE Spec2Model ----
(***************************************************************************)
(* Gary: a caching proxy in front of ISBNdb (src/gary.py).                 *)
(*                                                                         *)
(* The model covers the core of gary.py: the ISBN check is_isbn13, the     *)
(* store operations apply_remap, isbn_cached, isbndb_param, the fetch      *)
(* protocol isbndb_query with its retry loops, and query(), which takes    *)
(* the exclusive lock on the ISBNdb lockfile around isbndb_query.  The     *)
(* administration command setAPIKey of src/gary_admin.py is the one writer *)
(* of the keys table.  Several operating-system processes run query(),     *)
(* info() and pic() concurrently against SQLite databases that they share. *)
(* Spec has one database whose lockfile registration may change during the *)
(* run; SpecShared has two databases with fixed registrations, which may   *)
(* name the same lockfile.                                                 *)
(*                                                                         *)
(* Strings are sequences of one-character strings.  Every store operation  *)
(* of the code is one SQLite transaction with one statement in it, and is  *)
(* one step of the model: SQLite serialises transactions, and uncommitted  *)
(* rows are not visible to other connections.  The file system is outside  *)
(* the program: what os.path.isfile / islink / os.open find is chosen      *)
(* anew at every call.  A lockfile path names one file for the whole run.  *)
(***************************************************************************)
EXTENDS Integers, Sequences, FiniteSets, TLC

\* ------------------------------------------------------------------------
\* Bounds of the model
\* ------------------------------------------------------------------------

\* largest value of the UTC clock (seconds)
MaxClock == 1

\* largest number of lines on the standard input of sync
MaxLines == 2

\* ------------------------------------------------------------------------
\* Program constants
\* ------------------------------------------------------------------------

\* default retry count of isbndb_query for the JSON fetch
jretry == 3

\* default retry count of isbndb_query for the cover image fetch
iretry == 3

\* default delays of isbndb_query in seconds: between JSON attempts, between
\* image attempts, and after the last contact with ISBNdb
jdelay == 2
idelay == 1
fdelay == 2

\* the number of times that query() is retried in a loop in sync mode
LONG_RETRY_COUNT == 20

\* ------------------------------------------------------------------------
\* Value domains
\* ------------------------------------------------------------------------

\* the concurrent processes; each makes one call of query(), info() or
\* pic()
Procs == {"p1", "p2"}

\* no process (free lock)
NoProc == "nobody"

\* Python None and SQL NULL
None == "None"

\* no ISBN: the empty string
NoIsbn == <<>>

\* 9780306406157, a valid ISBN-13
IsbnA == <<"9","7","8","0","3","0","6","4","0","6","1","5","7">>

\* 9780131103627, a valid ISBN-13
IsbnB == <<"9","7","8","0","1","3","1","1","0","3","6","2","7">>

\* 9780306406158, thirteen digits with a wrong check digit
IsbnBad == <<"9","7","8","0","3","0","6","4","0","6","1","5","8">>

\* 9781861972712, a valid ISBN-13 that no caller asks for
IsbnC == <<"9","7","8","1","8","6","1","9","7","2","7","1","2">>

\* the isbn13 arguments that callers pass to query()
IsbnInputs == {IsbnA, IsbnB, IsbnBad}

\* the Gary databases (dbpath arguments)
DBs == {"db1", "db2"}

\* lockfile paths that may be stored under isbndb_lock
AbsPaths == {"/l1", "/l2"}
RelPaths == {"rel"}
Paths == AbsPaths \cup RelPaths

\* what the file system holds at a path when it is looked at
FileKinds == {"file", "link", "none"}

\* the API key
ApiKey == "k"

\* JSON texts that json_query accepts: {"book":{}} without an image field,
\* with "image":null, with "image":"<url>", with "image":7
JsonTexts == {"J_noimage", "J_nullimage", "J_url", "J_numimage"}

\* image bodies that img_query can download
ImgBytes == {"IMG"}

\* lines of standard input: 9780306406157, the ISBN-10 0-13-110362-8 (which
\* is 9780131103627), a line that is no ISBN, and a line of white space
LineA == IsbnA
LineB10 == <<"0","-","1","3","-","1","1","0","3","6","2","-","8">>
LineGarbage == <<"g","a","r","b","a","g","e">>
LineBlank == <<" ">>
SyncLines == {LineA, LineB10, LineGarbage, LineBlank}

\* the sequences of at most n lines
RECURSIVE LinesUpTo(_)
LinesUpTo(n) ==
  IF n = 0 THEN {<<>>}
  ELSE LinesUpTo(n - 1) \cup
       {Append(t, l) : t \in {u \in LinesUpTo(n - 1) : Len(u) = n - 1},
                       l \in SyncLines}

\* what standard input may hold when sync is run
SyncInputs == LinesUpTo(MaxLines)

\* ------------------------------------------------------------------------
\* is_isbn13
\* ------------------------------------------------------------------------

\* the characters with ord('0') <= ord(c) <= ord('9')
DigitChars == {"0", "1", "2", "3", "4", "5", "6", "7", "8", "9"}

IsDigit(c) == c \in DigitChars

\* ord(c) - ord('0') for a decimal digit c
DigitVal(c) ==
  CASE c = "0" -> 0 [] c = "1" -> 1 [] c = "2" -> 2 [] c = "3" -> 3
    [] c = "4" -> 4 [] c = "5" -> 5 [] c = "6" -> 6 [] c = "7" -> 7
    [] c = "8" -> 8 [] c = "9" -> 9

\* the loop of is_isbn13 from zero-based index x on, with the weighted sum
\* so far
RECURSIVE is_isbn13_loop(_, _, _)
is_isbn13_loop(s, x, wsum) ==
  IF x >= 13 THEN (wsum % 10) = 0
  ELSE IF ~IsDigit(s[x + 1]) THEN FALSE
  ELSE is_isbn13_loop(s, x + 1,
         wsum + (IF (x % 2) = 1 THEN 3 ELSE 1) * DigitVal(s[x + 1]))

\* is_isbn13 that checks the thirteen digits and not the check digit
is_isbn13_nocheck(s) ==
  IF Len(s) # 13 THEN FALSE ELSE \A x \in 1..13 : IsDigit(s[x])

\* is_isbn13 with the weight 3 on the even indices and 1 on the odd ones
RECURSIVE is_isbn13_loop_even(_, _, _)
is_isbn13_loop_even(s, x, wsum) ==
  IF x >= 13 THEN (wsum % 10) = 0
  ELSE IF ~IsDigit(s[x + 1]) THEN FALSE
  ELSE is_isbn13_loop_even(s, x + 1,
         wsum + (IF (x % 2) = 0 THEN 3 ELSE 1) * DigitVal(s[x + 1]))

is_isbn13_evenweights(s) ==
  IF Len(s) # 13 THEN FALSE ELSE is_isbn13_loop_even(s, 0, 0)

\* is_isbn13: thirteen decimal digits whose weighted sum is 0 mod 10
is_isbn13(s) ==
  IF Len(s) # 13 THEN FALSE ELSE is_isbn13_loop(s, 0, 0)

\* ------------------------------------------------------------------------
\* norm_isbn
\* ------------------------------------------------------------------------

\* the Python value False returned in place of a character
PyFalse == "False"

\* the letters, symbols and white space that occur in input lines
LowerChars == {"a", "b", "e", "g", "r", "x"}
UpperChars == {"A", "B", "E", "G", "R", "X"}
SymbolChars == {"-"}
SpaceChars == {" "}

\* chr(c - 0x20) for a lowercase letter
ToUpper(cc) ==
  CASE cc = "a" -> "A" [] cc = "b" -> "B" [] cc = "e" -> "E"
    [] cc = "g" -> "G" [] cc = "r" -> "R" [] cc = "x" -> "X"

\* chr(ord('0') + v) for 0 <= v <= 9
DigitChr(v) == CHOOSE c \in DigitChars : DigitVal(c) = v

\* norm_isbn_str: letters are kept in upper case, digits are kept, other
\* printing characters and white space are dropped, anything else is kept
RECURSIVE norm_isbn_str(_)
norm_isbn_str(s) ==
  IF s = <<>> THEN <<>>
  ELSE LET cc == Head(s)
           rest == norm_isbn_str(Tail(s))
       IN IF cc \in LowerChars THEN <<ToUpper(cc)>> \o rest
          ELSE IF cc \in UpperChars THEN <<cc>> \o rest
          ELSE IF cc \in DigitChars THEN <<cc>> \o rest
          ELSE IF cc \in SymbolChars THEN rest
          ELSE IF cc \in SpaceChars THEN rest
          ELSE <<cc>> \o rest

\* the weighted sum of compute_isbn_check for nine digits, from zero-based
\* index i on
RECURSIVE wsum10(_, _)
wsum10(s, i) ==
  IF i >= 9 THEN 0 ELSE (10 - i) * DigitVal(s[i + 1]) + wsum10(s, i + 1)

\* the weighted sum of compute_isbn_check for twelve digits, from
\* zero-based index i on
RECURSIVE wsum13(_, _)
wsum13(s, i) ==
  IF i >= 12 THEN 0
  ELSE (IF (i % 2) = 1 THEN 3 ELSE 1) * DigitVal(s[i + 1]) + wsum13(s, i + 1)

\* compute_isbn_check that returns 0 and not X for the check value ten of
\* nine digits
compute_isbn_check_noX(s) ==
  IF \E x \in 1..Len(s) : ~IsDigit(s[x]) THEN PyFalse
  ELSE IF Len(s) = 9
       THEN LET r == wsum10(s, 0) % 11
                checkv == IF r > 0 THEN 11 - r ELSE 0
            IN DigitChr(checkv % 10)
       ELSE IF Len(s) = 12
            THEN LET r == wsum13(s, 0) % 10
                     checkv == IF r > 0 THEN 10 - r ELSE 0
                 IN DigitChr(checkv)
            ELSE PyFalse

\* compute_isbn_check: the check digit of nine or twelve digits, or False
compute_isbn_check(s) ==
  IF \E x \in 1..Len(s) : ~IsDigit(s[x]) THEN PyFalse
  ELSE IF Len(s) = 9
       THEN LET r == wsum10(s, 0) % 11
                checkv == IF r > 0 THEN 11 - r ELSE 0
            IN IF checkv < 10 THEN DigitChr(checkv) ELSE "X"
       ELSE IF Len(s) = 12
            THEN LET r == wsum13(s, 0) % 10
                     checkv == IF r > 0 THEN 10 - r ELSE 0
                 IN DigitChr(checkv)
            ELSE PyFalse

\* the prefix that norm_isbn puts before the digits of an ISBN-10
Prefix978 == <<"9", "7", "8">>

\* norm_isbn that keeps the check character of an ISBN-10 and does not
\* compute the check digit of the thirteen digits
norm_isbn_keepcheck(line) ==
  LET s == norm_isbn_str(line) IN
    IF Len(s) = 10
    THEN LET md == SubSeq(s, 1, 9)
             cd == s[10]
             cds == compute_isbn_check(md)
         IN IF cds # PyFalse /\ cds = cd
            THEN [ok |-> TRUE, isbn |-> (Prefix978 \o md) \o <<cd>>]
            ELSE [ok |-> FALSE, isbn |-> <<>>]
    ELSE IF Len(s) = 13
         THEN LET md == SubSeq(s, 1, 12)
                  cd == s[13]
                  cds == compute_isbn_check(md)
              IN IF cds # PyFalse /\ cds = cd
                 THEN [ok |-> TRUE, isbn |-> s]
                 ELSE [ok |-> FALSE, isbn |-> <<>>]
         ELSE [ok |-> FALSE, isbn |-> <<>>]

\* norm_isbn: ok is FALSE when the function returns False, and isbn is the
\* ISBN-13 returned otherwise
norm_isbn(line) ==
  LET s == norm_isbn_str(line) IN
    IF Len(s) = 10
    THEN LET md == SubSeq(s, 1, 9)
             cd == s[10]
             cds == compute_isbn_check(md)
         IN IF cds # PyFalse /\ cds = cd
            THEN [ok |-> TRUE,
                  isbn |-> (Prefix978 \o md)
                             \o <<compute_isbn_check(Prefix978 \o md)>>]
            ELSE [ok |-> FALSE, isbn |-> <<>>]
    ELSE IF Len(s) = 13
         THEN LET md == SubSeq(s, 1, 12)
                  cd == s[13]
                  cds == compute_isbn_check(md)
              IN IF cds # PyFalse /\ cds = cd
                 THEN [ok |-> TRUE, isbn |-> s]
                 ELSE [ok |-> FALSE, isbn |-> <<>>]
         ELSE [ok |-> FALSE, isbn |-> <<>>]

\* line.strip(): the line without leading and trailing white space
RECURSIVE strip(_)
strip(line) ==
  IF line = <<>> THEN line
  ELSE IF Head(line) \in SpaceChars THEN strip(Tail(line))
  ELSE IF line[Len(line)] \in SpaceChars
       THEN strip(SubSeq(line, 1, Len(line) - 1))
       ELSE line

\* ------------------------------------------------------------------------
\* Arguments of the ISBN functions
\* ------------------------------------------------------------------------

\* the first nine digits of ISBN-10 numbers: 0306406ab for all digits a
\* and b, 013110362 and 080442957 (whose check character is X)
Bodies9 ==
  {<<"0","3","0","6","4","0","6">> \o <<a, b>> :
     a \in DigitChars, b \in DigitChars}
  \cup {<<"0","1","3","1","1","0","3","6","2">>,
        <<"0","8","0","4","4","2","9","5","7">>}

\* the first twelve digits of ISBN-13 numbers: 978 and 979 before the nine
\* digits above
Bodies12 ==
  {Prefix978 \o b : b \in Bodies9} \cup {<<"9","7","9">> \o b : b \in Bodies9}

\* the characters put in the place of the check digit
CheckChars == DigitChars \cup {"X", "x"}

\* strings of ten and of thirteen characters: a body and a last character
PlainArgs == {b \o <<c>> : b \in Bodies9 \cup Bodies12, c \in CheckChars}

\* such a string as it is written: with a hyphen after the first character,
\* and between spaces
Hyphened(s) == <<Head(s), "-">> \o Tail(s)
Spaced(s) == (<<" ">> \o s) \o <<" ">>

\* strings of other lengths: the bodies alone, the strings above with a
\* digit more, a word, and the empty string
OddArgs ==
  Bodies9 \cup Bodies12 \cup {s \o <<"0">> : s \in PlainArgs}
    \cup {LineGarbage, <<>>}

\* the strings that the ISBN functions are applied to
IsbnStrings ==
  PlainArgs \cup {Hyphened(s) : s \in PlainArgs}
    \cup {Spaced(s) : s \in PlainArgs} \cup OddArgs

\* ------------------------------------------------------------------------
\* State
\* ------------------------------------------------------------------------

VARIABLES
  dbfiles,    \* the database paths at which a database file exists
  books,      \* books[db]: the committed rows of table books
  remap,      \* remap[db]: the rows of table remap
  keys,       \* keys[db]: the rows of table keys
  lockOwner,  \* lockOwner[path]: the process holding the exclusive lock
  proc        \* proc[p]: the state of process p's query() call

vars == <<dbfiles, books, remap, keys, lockOwner, proc>>

store == <<dbfiles, books, remap, keys>>

\* The state of main_sync in a process that does not run the sync mode:
\*   cmd      "sync" in a process that runs main_sync
\*   stdin    the lines of standard input not read yet
\*   line     the stripped line being worked on
\*   isbn     the normalized ISBN of that line
\*   calls    the query() calls made for that line so far
\*   loaded   the ISBNs reported as loaded, in order
\*   status   how main_sync ended: "ok" or the exception raised
\*   stdout   the lines that the program has printed to standard output
\*   input    the lines that standard input held when the program started
NoSync ==
  [cmd |-> None, stdin |-> <<>>, line |-> <<>>, isbn |-> NoIsbn,
   calls |-> 0, loaded |-> <<>>, status |-> None, stdout |-> <<>>,
   input |-> <<>>]

\* What a process that applies the ISBN functions to a string holds:
\*   s        the string
\*   ok, t    norm_isbn(s): ok is FALSE when it returned False, t is the
\*            ISBN-13 returned otherwise
\*   v13s     is_isbn13(s)
\*   v13t     is_isbn13(t), when norm_isbn(s) returned t
\*   ok2, tt  norm_isbn(t), when norm_isbn(s) returned t
\*   chk      compute_isbn_check(s[0:len(s)-1])
NoCalc ==
  [s |-> <<>>, ok |-> FALSE, t |-> <<>>, v13s |-> FALSE, v13t |-> FALSE,
   ok2 |-> FALSE, tt |-> <<>>, chk |-> None]

\* The store operation that a process is running, statement by statement:
\*   at       its position: "begin", "body", "commit", "rollback",
\*            "exit", or None outside such an operation
\*   fn       the function that holds the operation
\*   mode     the mode of the transaction that is open on the connection:
\*            "DEFERRED", "IMMEDIATE", or None without a transaction
\*   lock     the SQLite lock that the connection holds on the database
\*            file: "none", "shared" or "reserved"
\*   isbn     what apply_remap read, found what isbn_cached read, val what
\*            isbndb_param, info() or pic() read
\*   row      the row inserted and not yet committed: a set of no or one
\*            row
\*   err      the exception on its way to the caller, or None
\*   hist     the statements executed by the operation, in order
NoTx ==
  [at |-> None, fn |-> None, mode |-> None, lock |-> "none",
   isbn |-> NoIsbn, found |-> FALSE, val |-> None, row |-> {},
   err |-> None, hist |-> <<>>]

\* Python values passed for the optional parameters of isbndb_query: t is
\* the kind of value ("int", "float", "str", "inf" and "nan" for the floats
\* that are not finite, "bigint" for an int beyond the range of float), v
\* its number when it is an int or a finite float; the bigint stands for
\* 10**400
PyInt(n) == [t |-> "int", v |-> n]
PyFloat(n) == [t |-> "float", v |-> n]
PyInf == [t |-> "inf", v |-> 0]
PyNaN == [t |-> "nan", v |-> 0]
PyStr == [t |-> "str", v |-> 0]
PyBigInt == [t |-> "bigint", v |-> 0]

\* the retry counts and the delays that isbndb_query is called with
RetryArgs == {PyInt(0), PyInt(1), PyInt(8), PyInt(9), PyStr}
DelayArgs ==
  {PyInt(0 - 1), PyInt(0), PyInt(16), PyFloat(15), PyInf, PyNaN, PyStr,
   PyBigInt}

\* What a process that calls isbndb_query with parameters of its own
\* holds:
\*   jretry .. fdelay   the arguments
\*   jd, id, fd         the delays after the checks, in seconds
\*   checked            the double-check has been made
\*   attempts           the calls of json_query and img_query so far
\*   longest            the longest time.sleep so far, in seconds
NoPar ==
  [jretry |-> PyInt(jretry), jdelay |-> PyFloat(jdelay),
   iretry |-> PyInt(iretry), idelay |-> PyFloat(idelay),
   fdelay |-> PyFloat(fdelay), jd |-> 0, id |-> 0,
   fd |-> 0, checked |-> FALSE, attempts |-> 0, longest |-> 0]

\* The command of gary_admin.py that a process of the administrator ran:
\*   src, dest   the [src13] and [dest13] arguments as they were typed
\*   r           the dest13 that the SELECT of addRemap found (NoIsbn when
\*               there was no row, or when it was not run)
NoAdm == [src |-> <<>>, dest |-> <<>>, r |-> <<>>]

\* the process that runs the commands of the administrator, one at a time
Admins == {"p1"}

\* the arguments that the administrator types: three ISBN-13 numbers,
\* thirteen digits with a wrong check digit, 9780306406157 with a hyphen
\* after its first digit, and a word
AdminArgs == {IsbnA, IsbnB, IsbnC, IsbnBad, Hyphened(IsbnA), LineGarbage}

\* A process before its call:
\*   op       the function called: query, info or pic
\*   pc       where the process is in the function
\*   dbpath   the database of the call
\*   arg      the isbn13 argument of the call
\*   isbn13   the local isbn13 (remapped by apply_remap)
\*   iparam   the lockfile path from isbndb_param, or None
\*   lfd      TRUE while the lockfile descriptor is open
\*   i        loop index of the retry loop the call is in
\*   jinfo    the JSON text fetched, or None
\*   imgdata  the image downloaded, or None
\*   outcome  what the call returns or raises, once that is decided
\*   events   what the call has done so far (history)
\*   sync     the state of main_sync when the process runs the sync mode
\*   mock     TRUE when the process runs with time.sleep, json_query and
\*            img_query under observation, which records their calls
\*   log      the calls recorded, in order
\*   calc     the results of the ISBN functions in a process that applies
\*            them to a string
\*   tx       the store operation in progress, where the statements of the
\*            store operations are steps of their own
\*   par      the parameters of a call of isbndb_query that passes them
\*   adm      the arguments of a remap command of gary_admin.py
IdleProc ==
  [op |-> None, pc |-> "idle", dbpath |-> None, arg |-> NoIsbn, isbn13 |-> NoIsbn,
   iparam |-> None, lfd |-> FALSE, i |-> 0, jinfo |-> None,
   imgdata |-> None, outcome |-> None, events |-> {}, sync |-> NoSync,
   mock |-> FALSE, log |-> <<>>, calc |-> NoCalc, tx |-> NoTx,
   par |-> NoPar, adm |-> NoAdm]

\* A process that holds the lock of /l1 and is about to call
\* isbndb_query(dbc, akey, isbn13, jretry, jdelay, iretry, idelay, fdelay)
\* on db1 for 9780306406157
ParProc(jr, jdl, ir, idl, fdl) ==
  [IdleProc EXCEPT
     !.op = "isbndb_query", !.pc = "q_call", !.dbpath = "db1",
     !.arg = IsbnA, !.isbn13 = IsbnA, !.iparam = "/l1", !.lfd = TRUE,
     !.par = [NoPar EXCEPT !.jretry = jr, !.jdelay = jdl, !.iretry = ir,
                           !.idelay = idl, !.fdelay = fdl]]

\* A process about to apply the ISBN functions to the string s
CalcProc(s) ==
  [IdleProc EXCEPT !.pc = "f_start", !.calc = [NoCalc EXCEPT !.s = s]]

\* A process before its call, with its calls of time.sleep, json_query and
\* img_query recorded
ObservedProc == [IdleProc EXCEPT !.mock = TRUE]

\* A process about to run main_sync(dbpath) with the lines of input on its
\* standard input
SyncProc(dbpath, input) ==
  [IdleProc EXCEPT !.pc = "s_line", !.dbpath = dbpath,
                   !.sync = [NoSync EXCEPT !.cmd = "sync", !.stdin = input,
                                           !.input = input]]

\* the program modes that take an ISBN argument
IsbnModes == {"json", "pic", "query"}

\* A process about to run main_json, main_pic or main_query (as mode says)
\* with dbpath and the ISBN argument arg; the main function's state is kept
\* in the fields of main_sync's: line is the argument, isbn its normalized
\* form
CliProc(mode, dbpath, arg) ==
  [IdleProc EXCEPT !.pc = "m_start", !.dbpath = dbpath,
                   !.sync = [NoSync EXCEPT !.cmd = mode, !.line = arg]]

\* contents of table remap that query() may be run against: empty, one
\* remapping, and one whose dest13 is not an ISBN-13
RemapTables == { {},
                 {[src13 |-> IsbnA, dest13 |-> IsbnB]},
                 {[src13 |-> IsbnA, dest13 |-> IsbnBad]} }

\* contents of table remap with a chain A -> B -> C and with a cycle
\* A -> B -> A
RemapChains == { {[src13 |-> IsbnA, dest13 |-> IsbnB],
                  [src13 |-> IsbnB, dest13 |-> IsbnC]},
                 {[src13 |-> IsbnA, dest13 |-> IsbnB],
                  [src13 |-> IsbnB, dest13 |-> IsbnA]} }

\* the rows of table keys after setAPIKey(dbc, ApiKey, lfp)
KeyRows(lfp) == {[kname |-> "isbndb", kval |-> ApiKey],
                 [kname |-> "isbndb_lock", kval |-> lfp]}

\* contents of table keys that query() may be run against
KeysTables ==
  { {}, {[kname |-> "isbndb", kval |-> ApiKey]} }
  \cup { KeyRows(path) : path \in Paths }

\* no book is cached yet, no process has called query()
Fresh ==
  /\ books = [db \in DBs |-> {}]
  /\ lockOwner = [path \in AbsPaths |-> NoProc]
  /\ proc = [p \in Procs |-> IdleProc]

\* one database, db1, as gary_createdb.py and the administrator leave it;
\* there is no file at db2
Init ==
  /\ Fresh
  /\ dbfiles = {"db1"}
  /\ remap \in [DBs -> RemapTables]
  /\ remap["db2"] = {}
  /\ keys \in [DBs -> KeysTables]
  /\ keys["db2"] = {}

\* two databases without remappings, both registered with ISBNdb, under
\* the same lockfile or under two lockfiles
InitShared ==
  /\ Fresh
  /\ dbfiles = DBs
  /\ remap = [db \in DBs |-> {}]
  /\ keys \in [DBs -> {KeyRows(path) : path \in AbsPaths}]
  /\ keys["db1"] = KeyRows("/l1")

\* one database whose remap table holds a chain or a cycle, registered
\* with ISBNdb or not
InitRemap ==
  /\ Fresh
  /\ dbfiles = {"db1"}
  /\ remap \in [DBs -> RemapChains \cup {{}}]
  /\ remap["db1"] \in RemapChains
  /\ remap["db2"] = {}
  /\ keys \in [DBs -> {{}, KeyRows("/l1")}]
  /\ keys["db2"] = {}

\* one database as in Init; process p1 runs the sync mode on it (or on the
\* path without a file) with some lines on its standard input
InitSync ==
  /\ books = [db \in DBs |-> {}]
  /\ lockOwner = [path \in AbsPaths |-> NoProc]
  /\ dbfiles = {"db1"}
  /\ remap \in [DBs -> RemapTables]
  /\ remap["db2"] = {}
  /\ keys \in [DBs -> {{}, KeyRows("/l1")}]
  /\ keys["db2"] = {}
  /\ proc \in [Procs -> {IdleProc} \cup
                 {SyncProc(db, input) : db \in DBs, input \in SyncInputs}]
  /\ proc["p1"] # IdleProc
  /\ proc["p2"] = IdleProc

\* one registered database whose remap table sends 9780306406157 to an
\* ISBN with a wrong check digit; process p1 runs the sync mode on lines
\* among which that ISBN is, process p2 is free to call query(), info() and
\* pic()
InitIntegrity ==
  /\ books = [db \in DBs |-> {}]
  /\ lockOwner = [path \in AbsPaths |-> NoProc]
  /\ dbfiles = {"db1"}
  /\ remap = [db \in DBs |-> IF db = "db1"
                              THEN {[src13 |-> IsbnA, dest13 |-> IsbnBad]}
                              ELSE {}]
  /\ keys = [db \in DBs |-> IF db = "db1" THEN KeyRows("/l1") ELSE {}]
  /\ \E input \in SyncInputs :
       /\ \E x \in 1..Len(input) : input[x] = LineA
       /\ \A x \in 1..Len(input) : input[x] # LineB10
       /\ proc = [p \in Procs |-> IF p = "p1" THEN SyncProc("db1", input)
                                  ELSE IdleProc]

\* the ISBN arguments of the program: the lines of the sync input and an
\* ISBN-13 with a wrong check digit
IsbnArgs == SyncLines \cup {IsbnBad}

\* one database, registered with ISBNdb or not, with or without a
\* remapping; process p1 runs the json, pic or query mode on it (or on the
\* path without a file), process p2 is free to call query(), info() and
\* pic()
InitCli ==
  /\ books = [db \in DBs |-> {}]
  /\ lockOwner = [path \in AbsPaths |-> NoProc]
  /\ dbfiles = {"db1"}
  /\ remap \in [DBs -> {{}, {[src13 |-> IsbnA, dest13 |-> IsbnB]}}]
  /\ remap["db2"] = {}
  /\ keys \in [DBs -> {{}, KeyRows("/l1")}]
  /\ keys["db2"] = {}
  /\ \E mode \in IsbnModes, db \in DBs, arg \in IsbnArgs :
       proc = [p \in Procs |-> IF p = "p1" THEN CliProc(mode, db, arg)
                               ELSE IdleProc]

\* process p1 applies the ISBN functions to a string; the store plays no
\* part
InitIsbn ==
  /\ books = [db \in DBs |-> {}]
  /\ lockOwner = [path \in AbsPaths |-> NoProc]
  /\ dbfiles = {"db1"}
  /\ remap = [db \in DBs |-> {}]
  /\ keys = [db \in DBs |-> {}]
  /\ \E s \in IsbnStrings :
       proc = [p \in Procs |-> IF p = "p1" THEN CalcProc(s) ELSE IdleProc]

\* one database without remappings, registered with ISBNdb under the
\* lockfile /l1, and processes that may call query()
InitLive ==
  /\ Fresh
  /\ dbfiles = {"db1"}
  /\ remap = [db \in DBs |-> {}]
  /\ keys = [db \in DBs |-> IF db = "db1" THEN KeyRows("/l1") ELSE {}]

\* process p1 holds the lock and calls isbndb_query with parameters of its
\* own, for a book that is not cached
InitParams ==
  /\ books = [db \in DBs |-> {}]
  /\ lockOwner = [path \in AbsPaths |-> IF path = "/l1" THEN "p1" ELSE NoProc]
  /\ dbfiles = {"db1"}
  /\ remap = [db \in DBs |-> {}]
  /\ keys = [db \in DBs |-> IF db = "db1" THEN KeyRows("/l1") ELSE {}]
  /\ \E jr \in RetryArgs, ir \in RetryArgs,
        jdl \in DelayArgs, idl \in DelayArgs, fdl \in DelayArgs :
       proc = [p \in Procs |-> IF p = "p1"
                                THEN ParProc(jr, jdl, ir, idl, fdl)
                                ELSE IdleProc]

\* one database, registered with ISBNdb under the lockfile /l1, whose
\* remap table leads from 9780306406157 to 9780131103627 and from
\* 9780131103627 to a dest13 that is not an ISBN-13; the store operations
\* run statement by statement
InitTx ==
  /\ Fresh
  /\ dbfiles = {"db1"}
  /\ remap = [db \in DBs |->
               IF db = "db1"
               THEN {[src13 |-> IsbnA, dest13 |-> IsbnB],
                     [src13 |-> IsbnB, dest13 |-> IsbnBad]}
               ELSE {}]
  /\ keys = [db \in DBs |-> IF db = "db1" THEN KeyRows("/l1") ELSE {}]

\* one database as gary_createdb.py leaves it, with an empty remap table;
\* the administrator runs remap commands on it
InitAdmin ==
  /\ books = [db \in DBs |-> {}]
  /\ lockOwner = [path \in AbsPaths |-> NoProc]
  /\ dbfiles = {"db1"}
  /\ remap = [db \in DBs |-> {}]
  /\ keys = [db \in DBs |-> {}]
  /\ proc = [p \in Procs |-> IdleProc]

\* one registered database without remappings; the calls of time.sleep,
\* json_query and img_query of both processes are recorded
InitTimed ==
  /\ books = [db \in DBs |-> {}]
  /\ lockOwner = [path \in AbsPaths |-> NoProc]
  /\ dbfiles = {"db1"}
  /\ remap = [db \in DBs |-> {}]
  /\ keys = [db \in DBs |-> IF db = "db1" THEN KeyRows("/l1") ELSE {}]
  /\ proc = [p \in Procs |-> ObservedProc]

\* ------------------------------------------------------------------------
\* Store reads
\* ------------------------------------------------------------------------

\* SELECT id FROM books WHERE isbn13=? finds a row
HasBook(db, isbn) == \E r \in books[db] : r.isbn13 = isbn

\* SELECT dest13 FROM remap WHERE src13=? : the dest13 found, or NoIsbn
\* when fetchone() returns no row
RemapDest(db, isbn) ==
  IF \E r \in remap[db] : r.src13 = isbn
  THEN (CHOOSE r \in remap[db] : r.src13 = isbn).dest13
  ELSE NoIsbn

\* SELECT kval FROM keys WHERE kname=? : the kval found, or None
KeyVal(db, kname) ==
  IF \E r \in keys[db] : r.kname = kname
  THEN (CHOOSE r \in keys[db] : r.kname = kname).kval
  ELSE None

\* os.path.isabs
IsAbs(path) == path \in AbsPaths

\* os.path.isfile and os.path.islink for what the file system holds
IsFile(kind) == kind \in {"file", "link"}
IsLink(kind) == kind = "link"

\* the value of j['book']['image'] when the field is there: None for JSON
\* null, "url" for a string, "num" for a number; "absent" without the field
ImageField(j) ==
  CASE j = "J_noimage" -> "absent"
    [] j = "J_nullimage" -> None
    [] j = "J_url" -> "url"
    [] j = "J_numimage" -> "num"

\* ------------------------------------------------------------------------
\* Store operations of gary.py (each is one transaction)
\* ------------------------------------------------------------------------

\* apply_remap that looks the ISBN it found up again
apply_remap_chase(db, isbn) ==
  IF ~is_isbn13(isbn) THEN [err |-> "LogicError", isbn13 |-> isbn]
  ELSE LET dest == RemapDest(db, isbn)
           dest2 == IF dest = NoIsbn THEN NoIsbn ELSE RemapDest(db, dest)
       IN IF dest = NoIsbn THEN [err |-> None, isbn13 |-> isbn]
          ELSE IF dest2 = NoIsbn THEN [err |-> None, isbn13 |-> dest]
          ELSE [err |-> None, isbn13 |-> dest2]

\* apply_remap that keeps the ISBN it was given when the dest13 found is
\* not an ISBN-13
apply_remap_fallback(db, isbn) ==
  IF ~is_isbn13(isbn) THEN [err |-> "LogicError", isbn13 |-> isbn]
  ELSE LET dest == RemapDest(db, isbn) IN
       IF dest = NoIsbn THEN [err |-> None, isbn13 |-> isbn]
       ELSE IF ~is_isbn13(dest)
            THEN [err |-> None, isbn13 |-> isbn]
            ELSE [err |-> None, isbn13 |-> dest]

\* apply_remap that does not consult the remap table
apply_remap_none(db, isbn) ==
  IF ~is_isbn13(isbn) THEN [err |-> "LogicError", isbn13 |-> isbn]
  ELSE [err |-> None, isbn13 |-> isbn]

\* apply_remap: err is the exception raised (None when it returns), isbn13
\* the ISBN returned
apply_remap(db, isbn) ==
  IF ~is_isbn13(isbn) THEN [err |-> "LogicError", isbn13 |-> isbn]
  ELSE LET dest == RemapDest(db, isbn) IN
       IF dest = NoIsbn THEN [err |-> None, isbn13 |-> isbn]
       ELSE IF ~is_isbn13(dest)
            THEN [err |-> "DatabaseIntegrityError", isbn13 |-> dest]
            ELSE [err |-> None, isbn13 |-> dest]

\* isbn_cached with a SELECT that never finds the row
isbn_cached_never(db, isbn, imode) ==
  IF ~is_isbn13(isbn) THEN [err |-> "LogicError", val |-> FALSE]
  ELSE [err |-> None, val |-> FALSE]

\* isbn_cached: err is the exception raised (None when it returns), val the
\* value returned; imode selects BEGIN IMMEDIATE instead of BEGIN DEFERRED
isbn_cached(db, isbn, imode) ==
  IF ~is_isbn13(isbn) THEN [err |-> "LogicError", val |-> FALSE]
  ELSE [err |-> None, val |-> HasBook(db, isbn)]

\* isbndb_param that accepts a symbolic link to a regular file
isbndb_param_nolink(db, kind) ==
  LET r_key == KeyVal(db, "isbndb")
      r_path == IF r_key # None THEN KeyVal(db, "isbndb_lock") ELSE None
  IN IF r_key # None /\ r_path # None
     THEN IF IsAbs(r_path) /\ IsFile(kind) THEN r_path ELSE None
     ELSE None

\* isbndb_param: the lockfile path of the result tuple, or None; kind is
\* what the file system holds at the stored path when it is checked
isbndb_param(db, kind) ==
  LET r_key == KeyVal(db, "isbndb")
      r_path == IF r_key # None THEN KeyVal(db, "isbndb_lock") ELSE None
  IN IF r_key # None /\ r_path # None
     THEN IF IsAbs(r_path) /\ IsFile(kind) /\ ~IsLink(kind)
          THEN r_path ELSE None
     ELSE None

\* what isbndb_param meets in the keys table and the file system: the first
\* of its conditions that fails, or "usable" (kept in the call's history)
ParamFault(db, kind) ==
  IF KeyVal(db, "isbndb") = None THEN "nokey"
  ELSE IF KeyVal(db, "isbndb_lock") = None THEN "nolock"
  ELSE IF ~IsAbs(KeyVal(db, "isbndb_lock")) THEN "notabs"
  ELSE IF ~IsFile(kind) THEN "notfile"
  ELSE IF IsLink(kind) THEN "islink"
  ELSE "usable"

\* ------------------------------------------------------------------------
\* Steps of a process
\* ------------------------------------------------------------------------

\* process p becomes q, nothing else changes
Step(p, q) ==
  /\ proc' = [proc EXCEPT ![p] = q]
  /\ UNCHANGED <<store, lockOwner>>

\* query() returns or raises `what` (dbc.close() in its finally)
Finish(me, what) == [me EXCEPT !.pc = "done", !.outcome = what]

\* isbndb_query returns or raises `what`: its locals are gone, and query()
\* goes on to its finally clauses
Leave(me, what) ==
  [me EXCEPT !.pc = "unlock", !.outcome = what, !.i = 0, !.jinfo = None,
             !.imgdata = None]

\* the call adds es to its history
Note(me, es) == [me EXCEPT !.events = @ \cup es]

\* the records of a call of time.sleep with the delay named arg, which is
\* secs seconds, and of a call of json_query or img_query that returned r
SleepCall(arg, secs) ==
  [call |-> "sleep", arg |-> arg, secs |-> secs, ok |-> TRUE]
FetchCall(f, r) == [call |-> f, arg |-> None, secs |-> 0, ok |-> r # None]

\* the call e is recorded, in a process under observation
Log(me, e) == IF me.mock THEN [me EXCEPT !.log = Append(@, e)] ELSE me

\* parameter checks that look at the ISBN before they look for the
\* database file
EnterFault_isbnfirst(db, s) ==
  IF ~is_isbn13(s) THEN "InvalidISBNError"
  ELSE IF db \notin dbfiles THEN "NoDatabaseFileError"
  ELSE None

\* the parameter checks of query(), info() and pic(), and the connection
\* to the database: the exception raised, or None
EnterFault(db, s) ==
  IF db \notin dbfiles THEN "NoDatabaseFileError"
  ELSE IF ~is_isbn13(s) THEN "InvalidISBNError"
  ELSE None

\* query() is called with a database and an isbn13; the parameter checks
query_enter(p) ==
  /\ proc[p].pc = "idle"
  /\ \E db \in DBs, s \in IsbnInputs :
       LET me == [proc[p] EXCEPT !.op = "query", !.dbpath = db, !.arg = s,
                                 !.isbn13 = s]
       IN IF EnterFault(db, s) # None
          THEN Step(p, Finish(me, EnterFault(db, s)))
          ELSE Step(p, [me EXCEPT !.pc = "remap"])

\* isbn13 = apply_remap(dbc, isbn13)
query_remap(p) ==
  /\ proc[p].pc = "remap"
  /\ LET me == proc[p]
         r == apply_remap(me.dbpath, me.isbn13)
     IN IF r.err # None
        THEN Step(p, Finish(me, r.err))
        ELSE Step(p, [me EXCEPT !.pc = "cached", !.isbn13 = r.isbn13])

\* query() that takes the lockfile lock before it reports a cached book
query_cached_locked(p) ==
  /\ proc[p].pc = "cached"
  /\ LET me == proc[p]
         r == isbn_cached(me.dbpath, me.isbn13, FALSE)
     IN IF r.err # None
        THEN Step(p, Finish(me, r.err))
        ELSE IF r.val
             THEN Step(p, [Note(me, {"hit"}) EXCEPT !.pc = "param"])
             ELSE Step(p, [Note(me, {"miss"}) EXCEPT !.pc = "param"])

\* if isbn_cached(dbc, isbn13): result = True
query_cached(p) ==
  /\ proc[p].pc = "cached"
  /\ LET me == proc[p]
         r == isbn_cached(me.dbpath, me.isbn13, FALSE)
     IN IF r.err # None
        THEN Step(p, Finish(me, r.err))
        ELSE IF r.val
             THEN Step(p, Finish(Note(me, {"hit"}), "True"))
             ELSE Step(p, [Note(me, {"miss"}) EXCEPT !.pc = "param"])

\* iparam = isbndb_param(dbc); without access information result = False
query_param(p) ==
  /\ proc[p].pc = "param"
  /\ \E kind \in FileKinds :
       LET me == proc[p]
           ip == isbndb_param(me.dbpath, kind)
           seen == Note(me, {ParamFault(me.dbpath, kind)})
       IN IF ip = None
          THEN Step(p, Finish(Note(seen, {"noparam"}), "False"))
          ELSE Step(p, [seen EXCEPT !.pc = "open", !.iparam = ip])

\* query() that opens the lockfile and goes on without locking it
query_open_nolock(p) ==
  /\ proc[p].pc = "open"
  /\ \E ok \in BOOLEAN :
       LET me == proc[p] IN
         IF ok
         THEN Step(p, [Note(me, {"open"}) EXCEPT !.pc = "check", !.lfd = TRUE])
         ELSE Step(p, Finish(me, "OpenLockfileError"))

\* query() whose result is False when the lockfile cannot be opened
query_open_false(p) ==
  /\ proc[p].pc = "open"
  /\ \E ok \in BOOLEAN :
       LET me == proc[p] IN
         IF ok
         THEN Step(p, [Note(me, {"open"}) EXCEPT !.pc = "lock", !.lfd = TRUE])
         ELSE Step(p, Finish(me, "False"))

\* lfd = os.open(iparam[1], os.O_RDWR); the file may be gone by now
query_open(p) ==
  /\ proc[p].pc = "open"
  /\ \E ok \in BOOLEAN :
       LET me == proc[p] IN
         IF ok
         THEN Step(p, [Note(me, {"open"}) EXCEPT !.pc = "lock", !.lfd = TRUE])
         ELSE Step(p, Finish(me, "OpenLockfileError"))

\* a lock request that is granted while another process holds the lock
query_lock_shared(p) ==
  /\ proc[p].pc = "lock"
  /\ lockOwner' = [lockOwner EXCEPT ![proc[p].iparam] = p]
  /\ proc' = [proc EXCEPT ![p] = [Note(@, {"lock"}) EXCEPT !.pc = "check"]]
  /\ UNCHANGED store

\* fcntl.lockf(lfd, fcntl.LOCK_EX): blocks until the lock is free
query_lock(p) ==
  /\ proc[p].pc = "lock"
  /\ lockOwner[proc[p].iparam] = NoProc
  /\ lockOwner' = [lockOwner EXCEPT ![proc[p].iparam] = p]
  /\ proc' = [proc EXCEPT ![p] = [Note(@, {"lock"}) EXCEPT !.pc = "check"]]
  /\ UNCHANGED store

\* ------------------------------------------------------------------------
\* isbndb_query(): the fetch protocol, run while holding the lock
\* ------------------------------------------------------------------------

\* isbndb_query that finds the record in the double-check and fetches it
\* all the same
isbndb_query_check_noreturn(p) ==
  /\ proc[p].pc = "check"
  /\ LET me == proc[p]
         r == isbn_cached(me.dbpath, me.isbn13, TRUE)
     IN IF r.err # None
        THEN Step(p, Leave(me, r.err))
        ELSE IF r.val
             THEN Step(p, [Note(me, {"dchit", "json"}) EXCEPT !.pc = "jcall"])
             ELSE Step(p, [Note(me, {"dcmiss", "json"}) EXCEPT !.pc = "jcall"])

\* isbndb_query that returns False without a fetch when a call of another
\* process for this ISBN has failed to fetch it
isbndb_query_check_remembered(p) ==
  /\ proc[p].pc = "check"
  /\ LET me == proc[p]
         r == isbn_cached(me.dbpath, me.isbn13, TRUE)
     IN IF r.err # None
        THEN Step(p, Leave(me, r.err))
        ELSE IF r.val
             THEN Step(p, Leave(Note(me, {"dchit"}), "True"))
             ELSE IF \E q \in Procs \ {p} :
                       /\ proc[q].isbn13 = me.isbn13
                       /\ proc[q].dbpath = me.dbpath
                       /\ proc[q].outcome = "False"
                       /\ "svcfail" \in proc[q].events
                  THEN Step(p, Leave(Note(me, {"dcmiss"}), "False"))
                  ELSE Step(p, [Note(me, {"dcmiss", "json"}) EXCEPT
                                  !.pc = "jcall"])

\* the parameter checks and the double-check under the lock:
\* if isbn_cached(dbc, isbn13, imode=True): return True; else the first
\* json_query call of the retry loop is made
isbndb_query_check(p) ==
  /\ proc[p].pc = "check"
  /\ LET me == proc[p]
         r == isbn_cached(me.dbpath, me.isbn13, TRUE)
     IN IF r.err # None
        THEN Step(p, Leave(me, r.err))
        ELSE IF r.val
             THEN Step(p, Leave(Note(me, {"dchit"}), "True"))
             ELSE Step(p, [Note(me, {"dcmiss", "json"}) EXCEPT !.pc = "jcall"])

\* isbndb_query whose JSON loop goes on until json_query succeeds
json_query_return_unbounded(p) ==
  /\ proc[p].pc = "jcall"
  /\ \E r \in JsonTexts \cup {None} :
       LET me == Log(proc[p], FetchCall("json_query", r)) IN
         IF r # None
         THEN LET imgurl == ImageField(r) IN
              IF imgurl \in {"absent", None}
              THEN Step(p, [me EXCEPT !.pc = "insert", !.jinfo = r])
              ELSE IF imgurl # "url"
              THEN Step(p, Leave(Note(me, {"numimage"}), "LogicError"))
              ELSE Step(p, [Note(me, {"img"}) EXCEPT
                              !.pc = "icall", !.jinfo = r, !.i = 0])
         ELSE Step(p, [Note(me, {"svcfail"}) EXCEPT !.pc = "jsleep"])

\* isbndb_query whose JSON loop makes one attempt more
json_query_return_onemore(p) ==
  /\ proc[p].pc = "jcall"
  /\ \E r \in JsonTexts \cup {None} :
       LET me == Log(proc[p], FetchCall("json_query", r)) IN
         IF r # None
         THEN LET imgurl == ImageField(r) IN
              IF imgurl \in {"absent", None}
              THEN Step(p, [me EXCEPT !.pc = "insert", !.jinfo = r])
              ELSE IF imgurl # "url"
              THEN Step(p, Leave(Note(me, {"numimage"}), "LogicError"))
              ELSE Step(p, [Note(me, {"img"}) EXCEPT
                              !.pc = "icall", !.jinfo = r, !.i = 0])
         ELSE IF me.i < jretry
              THEN Step(p, [Note(me, {"svcfail"}) EXCEPT
                              !.pc = "jsleep", !.i = @ + 1])
              ELSE Step(p, [Note(me, {"svcfail"}) EXCEPT
                              !.pc = "fsleep", !.outcome = "False"])

\* isbndb_query that downloads the image whenever the book object has an
\* image field, a JSON null included
json_query_return_nullimage(p) ==
  /\ proc[p].pc = "jcall"
  /\ \E r \in JsonTexts \cup {None} :
       LET me == Log(proc[p], FetchCall("json_query", r)) IN
         IF r # None
         THEN LET imgurl == ImageField(r) IN
              IF imgurl = "absent"
              THEN Step(p, [me EXCEPT !.pc = "insert", !.jinfo = r])
              ELSE IF imgurl = "num"
              THEN Step(p, Leave(Note(me, {"numimage"}), "LogicError"))
              ELSE Step(p, [Note(me, {"img"}) EXCEPT
                              !.pc = "icall", !.jinfo = r, !.i = 0])
         ELSE IF me.i + 1 < jretry
              THEN Step(p, [Note(me, {"svcfail"}) EXCEPT
                              !.pc = "jsleep", !.i = @ + 1])
              ELSE Step(p, [Note(me, {"svcfail"}) EXCEPT
                              !.pc = "fsleep", !.outcome = "False"])

\* jinfo = json_query(akey, isbn13) returns r; on success the image field
\* is looked up, and if there is an image the first img_query call is made
json_query_return(p) ==
  /\ proc[p].pc = "jcall"
  /\ \E r \in JsonTexts \cup {None} :
       LET me == Log(proc[p], FetchCall("json_query", r)) IN
         IF r # None
         THEN LET imgurl == ImageField(r) IN
              IF imgurl \in {"absent", None}
              THEN Step(p, [me EXCEPT !.pc = "insert", !.jinfo = r])
              ELSE IF imgurl # "url"
              THEN \* img_query: if not isinstance(iurl, str): raise LogicError()
                   Step(p, Leave(Note(me, {"numimage"}), "LogicError"))
              ELSE Step(p, [Note(me, {"img"}) EXCEPT
                              !.pc = "icall", !.jinfo = r, !.i = 0])
         ELSE IF me.i + 1 < jretry
              THEN Step(p, [Note(me, {"svcfail"}) EXCEPT
                              !.pc = "jsleep", !.i = @ + 1])
              ELSE Step(p, [Note(me, {"svcfail"}) EXCEPT
                              !.pc = "fsleep", !.outcome = "False"])

\* isbndb_query that makes the next json_query call without a delay
json_query_retry_nosleep(p) ==
  /\ proc[p].pc = "jsleep"
  /\ Step(p, [proc[p] EXCEPT !.pc = "jcall"])

\* time.sleep(jdelay) ends and the next json_query call is made
json_query_retry(p) ==
  /\ proc[p].pc = "jsleep"
  /\ Step(p, [Log(proc[p], SleepCall("jdelay", jdelay)) EXCEPT !.pc = "jcall"])

\* isbndb_query that stores the book without its cover when the image
\* cannot be fetched
img_query_return_nocover(p) ==
  /\ proc[p].pc = "icall"
  /\ \E r \in ImgBytes \cup {None} :
       LET me == proc[p] IN
         IF r # None
         THEN Step(p, [me EXCEPT !.pc = "insert", !.imgdata = r])
         ELSE IF me.i + 1 < iretry
              THEN Step(p, [Note(me, {"svcfail"}) EXCEPT
                              !.pc = "isleep", !.i = @ + 1])
              ELSE Step(p, [Note(me, {"svcfail"}) EXCEPT !.pc = "insert"])

\* isbndb_query that returns False at once when the image cannot be
\* fetched
img_query_return_nodelay(p) ==
  /\ proc[p].pc = "icall"
  /\ \E r \in ImgBytes \cup {None} :
       LET me == Log(proc[p], FetchCall("img_query", r)) IN
         IF r # None
         THEN Step(p, [me EXCEPT !.pc = "insert", !.imgdata = r])
         ELSE IF me.i + 1 < iretry
              THEN Step(p, [Note(me, {"svcfail"}) EXCEPT
                              !.pc = "isleep", !.i = @ + 1])
              ELSE Step(p, Leave(Note(me, {"svcfail"}), "False"))

\* imgdata = img_query(imgurl) returns r
img_query_return(p) ==
  /\ proc[p].pc = "icall"
  /\ \E r \in ImgBytes \cup {None} :
       LET me == Log(proc[p], FetchCall("img_query", r)) IN
         IF r # None
         THEN Step(p, [me EXCEPT !.pc = "insert", !.imgdata = r])
         ELSE IF me.i + 1 < iretry
              THEN Step(p, [Note(me, {"svcfail"}) EXCEPT
                              !.pc = "isleep", !.i = @ + 1])
              ELSE Step(p, [Note(me, {"svcfail"}) EXCEPT
                              !.pc = "fsleep", !.outcome = "False"])

\* time.sleep(idelay) ends and the next img_query call is made
img_query_retry(p) ==
  /\ proc[p].pc = "isleep"
  /\ Step(p, [Log(proc[p], SleepCall("idelay", idelay)) EXCEPT !.pc = "icall"])

\* a row keyed by the ISBN that query() was called with
NewRow_src13(me, ts) ==
  [isbn13 |-> me.arg, fetched |-> ts, json |-> me.jinfo,
   cover |-> me.imgdata]

\* the row that isbndb_query inserts at time ts
NewRow(me, ts) ==
  [isbn13 |-> me.isbn13, fetched |-> ts, json |-> me.jinfo,
   cover |-> me.imgdata]

\* isbndb_query that returns True right after the COMMIT
isbndb_query_insert_nodelay(p) ==
  /\ proc[p].pc = "insert"
  /\ LET me == proc[p] IN
       \/ Step(p, Leave(me, "OpenCursorError"))
       \/ IF HasBook(me.dbpath, me.isbn13)
          THEN Step(p, Leave(Note(me, {"rollback"}), "SQLError"))
          ELSE \E ts \in 0..MaxClock :
                 /\ books' = [books EXCEPT
                                ![me.dbpath] = @ \cup {NewRow(me, ts)}]
                 /\ proc' = [proc EXCEPT ![p] =
                               Leave(Note(me, {"insert"}), "True")]
                 /\ UNCHANGED <<dbfiles, remap, keys, lockOwner>>

\* isbndb_query with INSERT OR REPLACE INTO books
isbndb_query_insert_replace(p) ==
  /\ proc[p].pc = "insert"
  /\ LET me == proc[p] IN
       \/ Step(p, Leave(me, "OpenCursorError"))
       \/ \E ts \in 0..MaxClock :
            /\ books' = [books EXCEPT ![me.dbpath] =
                           {r \in @ : r.isbn13 # me.isbn13}
                             \cup {NewRow(me, ts)}]
            /\ proc' = [proc EXCEPT ![p] =
                          [Note(me, {"insert"}) EXCEPT
                             !.pc = "fsleep", !.outcome = "True"]]
            /\ UNCHANGED <<dbfiles, remap, keys, lockOwner>>

\* dbc.cursor(), which may fail with OpenCursorError; then BEGIN IMMEDIATE;
\* INSERT INTO books ...; COMMIT, at the time ts that the clock shows.
\* isbn13 is UNIQUE: when a row with this isbn13 exists the INSERT fails,
\* the transaction is rolled back and SQLError is raised
isbndb_query_insert(p) ==
  /\ proc[p].pc = "insert"
  /\ LET me == proc[p] IN
       \/ Step(p, Leave(me, "OpenCursorError"))
       \/ IF HasBook(me.dbpath, me.isbn13)
          THEN Step(p, Leave(Note(me, {"rollback"}), "SQLError"))
          ELSE \E ts \in 0..MaxClock :
                 /\ books' = [books EXCEPT
                                ![me.dbpath] = @ \cup {NewRow(me, ts)}]
                 /\ proc' = [proc EXCEPT ![p] =
                               [Note(me, {"insert"}) EXCEPT
                                  !.pc = "fsleep", !.outcome = "True"]]
                 /\ UNCHANGED <<dbfiles, remap, keys, lockOwner>>

\* isbndb_query that returns without the final delay
isbndb_query_return_nosleep(p) ==
  /\ proc[p].pc = "fsleep"
  /\ Step(p, Leave(proc[p], proc[p].outcome))

\* time.sleep(fdelay) ends and isbndb_query returns
isbndb_query_return(p) ==
  /\ proc[p].pc = "fsleep"
  /\ Step(p, Leave(Log(proc[p], SleepCall("fdelay", fdelay)), proc[p].outcome))

\* query() that unlocks after isbndb_query returns, not in a finally
query_unlock_onreturn(p) ==
  /\ proc[p].pc = "unlock"
  /\ lockOwner' = IF proc[p].outcome \in {"True", "False"}
                  THEN [lockOwner EXCEPT ![proc[p].iparam] = NoProc]
                  ELSE lockOwner
  /\ proc' = [proc EXCEPT ![p].pc = "close"]
  /\ UNCHANGED store

\* finally: fcntl.lockf(lfd, fcntl.LOCK_UN)
query_unlock(p) ==
  /\ proc[p].pc = "unlock"
  /\ lockOwner' = [lockOwner EXCEPT ![proc[p].iparam] = NoProc]
  /\ proc' = [proc EXCEPT ![p].pc = "close"]
  /\ UNCHANGED store

\* finally: os.close(lfd); finally: dbc.close(); return result
query_close(p) ==
  /\ proc[p].pc = "close"
  /\ Step(p, [proc[p] EXCEPT !.pc = "done", !.lfd = FALSE])

\* ------------------------------------------------------------------------
\* info() and pic(): reads of the cache
\* ------------------------------------------------------------------------

\* SELECT json FROM books WHERE isbn13=? : r[0], or None without a row
SelectJson(db, isbn) ==
  IF HasBook(db, isbn)
  THEN (CHOOSE r \in books[db] : r.isbn13 = isbn).json
  ELSE None

\* SELECT cover FROM books WHERE isbn13=? : r[0], or None without a row
SelectCover(db, isbn) ==
  IF HasBook(db, isbn)
  THEN (CHOOSE r \in books[db] : r.isbn13 = isbn).cover
  ELSE None

\* info() or pic() is called with a database and an isbn13; the parameter
\* checks
read_enter(p) ==
  /\ proc[p].pc = "idle"
  /\ \E f \in {"info", "pic"}, db \in DBs, s \in IsbnInputs :
       LET me == [proc[p] EXCEPT !.op = f, !.dbpath = db, !.arg = s,
                                 !.isbn13 = s]
       IN IF EnterFault(db, s) # None
          THEN Step(p, Finish(me, EnterFault(db, s)))
          ELSE Step(p, [me EXCEPT !.pc = "r_remap"])

\* isbn13 = apply_remap(dbc, isbn13) in info() and pic()
read_remap(p) ==
  /\ proc[p].pc = "r_remap"
  /\ LET me == proc[p]
         r == apply_remap(me.dbpath, me.isbn13)
     IN IF r.err # None
        THEN Step(p, Finish(me, r.err))
        ELSE Step(p, [me EXCEPT !.pc = "r_select", !.isbn13 = r.isbn13])

\* info() that goes on as query() does when it finds no row
info_select_fetch(p) ==
  /\ proc[p].pc = "r_select"
  /\ proc[p].op = "info"
  /\ IF HasBook(proc[p].dbpath, proc[p].isbn13)
     THEN Step(p, Finish(proc[p], SelectJson(proc[p].dbpath, proc[p].isbn13)))
     ELSE Step(p, [proc[p] EXCEPT !.pc = "param"])

\* info(): the SELECT json transaction; return result
info_select(p) ==
  /\ proc[p].pc = "r_select"
  /\ proc[p].op = "info"
  /\ Step(p, Finish(proc[p], SelectJson(proc[p].dbpath, proc[p].isbn13)))

\* pic(): the SELECT cover transaction; return result
pic_select(p) ==
  /\ proc[p].pc = "r_select"
  /\ proc[p].op = "pic"
  /\ Step(p, Finish(proc[p], SelectCover(proc[p].dbpath, proc[p].isbn13)))

\* ------------------------------------------------------------------------
\* isbndb_query called with retry counts and delays
\* ------------------------------------------------------------------------

\* isinstance(x, int), isinstance(x, float) after the conversions
IsPyInt(x) == x.t \in {"int", "bigint"}
IsPyFloat(x) == x.t \in {"int", "float", "inf", "nan"}

\* x < 1 or x > 8 for an int
RetryOutOfRange(x) == IF x.t = "bigint" THEN TRUE ELSE x.v < 1 \/ x.v > 8

\* the checks of the optional variables: the exception raised, or None.
\* float(x) of an int beyond the range of float raises OverflowError
ArgsFault(a) ==
  LET delays == {a.jdelay, a.idelay, a.fdelay} IN
    IF ~IsPyInt(a.jretry) \/ ~IsPyInt(a.iretry) THEN "LogicError"
    ELSE IF RetryOutOfRange(a.jretry) \/ RetryOutOfRange(a.iretry)
         THEN "LogicError"
    ELSE IF \E d \in delays : d.t = "bigint" THEN "OverflowError"
    ELSE IF \E d \in delays : ~IsPyFloat(d) THEN "LogicError"
    ELSE IF \E d \in delays : d.t \in {"inf", "nan"} THEN "LogicError"
    ELSE IF \E d \in delays : ~(d.v >= 0) THEN "LogicError"
    ELSE None

\* if delay > 15.0: delay = 15.0
Clamp(d) == IF d.v > 15 THEN 15 ELSE d.v

\* time.sleep(secs)
Sleep(me, secs) ==
  [me EXCEPT !.par.longest = IF secs > @ THEN secs ELSE @]

\* isbndb_query returns or raises `what`
ParEnd(me, what) == [me EXCEPT !.pc = "q_done", !.outcome = what]

\* isbndb_query is entered: the checks of the optional variables, the
\* clamping of the delays, and the double-check
isbndb_query_call(p) ==
  /\ proc[p].pc = "q_call"
  /\ LET me == proc[p]
         a == me.par
         r == isbn_cached(me.dbpath, me.isbn13, TRUE)
         ready == [me EXCEPT !.par.jd = Clamp(a.jdelay),
                             !.par.id = Clamp(a.idelay),
                             !.par.fd = Clamp(a.fdelay),
                             !.par.checked = TRUE]
     IN IF ArgsFault(a) # None
        THEN Step(p, ParEnd(me, ArgsFault(a)))
        ELSE IF r.err # None THEN Step(p, ParEnd(ready, r.err))
        ELSE IF r.val THEN Step(p, ParEnd(ready, "True"))
        ELSE Step(p, [ready EXCEPT !.pc = "q_json", !.i = 0])

\* one turn of the loop for i in range(0, jretry): the delay before an
\* attempt that is not the first, json_query, and what follows the loop
\* when it ends
isbndb_query_json(p) ==
  /\ proc[p].pc = "q_json"
  /\ \E r \in JsonTexts \cup {None} :
       LET a == proc[p].par
           me == [(IF proc[p].i > 0 THEN Sleep(proc[p], a.jd) ELSE proc[p])
                    EXCEPT !.par.attempts = @ + 1]
       IN IF r # None
          THEN LET imgurl == ImageField(r) IN
               IF imgurl \in {"absent", None}
               THEN Step(p, [me EXCEPT !.pc = "q_store", !.jinfo = r])
               ELSE IF imgurl # "url"
               THEN Step(p, ParEnd(me, "LogicError"))
               ELSE Step(p, [me EXCEPT !.pc = "q_img", !.jinfo = r, !.i = 0])
          ELSE IF me.i + 1 < a.jretry.v
               THEN Step(p, [me EXCEPT !.i = @ + 1])
               ELSE Step(p, ParEnd(Sleep(me, a.fd), "False"))

\* one turn of the loop for i in range(0, iretry): the delay before an
\* attempt that is not the first, img_query, and what follows the loop
\* when it ends
isbndb_query_img(p) ==
  /\ proc[p].pc = "q_img"
  /\ \E r \in ImgBytes \cup {None} :
       LET a == proc[p].par
           me == [(IF proc[p].i > 0 THEN Sleep(proc[p], a.id) ELSE proc[p])
                    EXCEPT !.par.attempts = @ + 1]
       IN IF r # None
          THEN Step(p, [me EXCEPT !.pc = "q_store", !.imgdata = r])
          ELSE IF me.i + 1 < a.iretry.v
               THEN Step(p, [me EXCEPT !.i = @ + 1])
               ELSE Step(p, ParEnd(Sleep(me, a.fd), "False"))

\* the insert, the final delay and return True
isbndb_query_store(p) ==
  /\ proc[p].pc = "q_store"
  /\ LET me == proc[p] IN
       \/ Step(p, ParEnd(me, "OpenCursorError"))
       \/ IF HasBook(me.dbpath, me.isbn13)
          THEN Step(p, ParEnd(me, "SQLError"))
          ELSE \E ts \in 0..MaxClock :
                 /\ books' = [books EXCEPT
                                ![me.dbpath] = @ \cup {NewRow(me, ts)}]
                 /\ proc' = [proc EXCEPT ![p] =
                               ParEnd(Sleep(me, me.par.fd), "True")]
                 /\ UNCHANGED <<dbfiles, remap, keys, lockOwner>>

\* a step of isbndb_query called with parameters
ParStep ==
  \/ \E p \in Procs : isbndb_query_call(p)
  \/ \E p \in Procs : isbndb_query_json(p)
  \/ \E p \in Procs : isbndb_query_img(p)
  \/ \E p \in Procs : isbndb_query_store(p)

\* ------------------------------------------------------------------------
\* The store operations statement by statement
\* ------------------------------------------------------------------------

\* the positions of query(), info() and pic() at which a store operation
\* is called: apply_remap, isbn_cached, isbndb_param, the double-check and
\* the insert of isbndb_query, apply_remap and the SELECT of info() and
\* pic()
StorePcs ==
  {"remap", "cached", "param", "check", "insert", "r_remap", "r_select"}

\* the function that holds the store operation called at me.pc
StoreFn(me) ==
  CASE me.pc \in {"remap", "r_remap"} -> "apply_remap"
    [] me.pc \in {"cached", "check"} -> "isbn_cached"
    [] me.pc = "param" -> "isbndb_param"
    [] me.pc = "insert" -> "isbndb_query"
    [] me.pc = "r_select" -> me.op

\* store operations that all begin a deferred transaction
BeginMode_deferred(me) == "DEFERRED"

\* store operations that all begin an immediate transaction
BeginMode_immediate(me) == "IMMEDIATE"

\* the mode of the BEGIN statement of the operation called at me.pc:
\* isbn_cached begins an immediate transaction when imode is True, which
\* it is in the call made by isbndb_query; the insert begins an immediate
\* transaction; every other operation begins a deferred one
BeginMode(me) ==
  CASE me.pc = "check" -> "IMMEDIATE"
    [] me.pc = "insert" -> "IMMEDIATE"
    [] OTHER -> "DEFERRED"

\* another connection to the database of p holds the reserved lock, which
\* BEGIN IMMEDIATE asks for
WriteLocked(p) ==
  \E q \in Procs \ {p} :
    proc[q].dbpath = proc[p].dbpath /\ proc[q].tx.lock = "reserved"

\* another connection to the database of p holds a shared lock, which the
\* COMMIT of a change waits for
ReadLocked(p) ==
  \E q \in Procs \ {p} :
    proc[q].dbpath = proc[p].dbpath /\ proc[q].tx.lock = "shared"

\* an exception of a store operation that leaves query() at once, without
\* the finally clauses that unlock and close the lockfile
Raise_nofinally(me, err) == Finish([me EXCEPT !.tx = NoTx], err)

\* the store operation raises err to the function that called it: out of
\* isbndb_query the exception passes the finally clauses of query(), from
\* everywhere else it leaves query(), info() or pic() after dbc.close()
Raise(me, err) ==
  IF me.pc \in {"check", "insert"}
  THEN Leave([me EXCEPT !.tx = NoTx], err)
  ELSE Finish([me EXCEPT !.tx = NoTx], err)

\* the operation executes the statement stmt
Exec(me, stmt) == [me EXCEPT !.tx.hist = Append(@, stmt)]

\* the parameter checks of the operation and cur = dbc.cursor(), which may
\* fail with OpenCursorError
store_cursor(p) ==
  /\ proc[p].pc \in StorePcs
  /\ proc[p].tx.at = None
  /\ LET me == proc[p] IN
       IF StoreFn(me) \in {"apply_remap", "isbn_cached"}
            /\ ~is_isbn13(me.isbn13)
       THEN Step(p, Raise(me, "LogicError"))
       ELSE \/ Step(p, [me EXCEPT !.tx = [NoTx EXCEPT !.at = "begin",
                                                       !.fn = StoreFn(me)]])
            \/ Step(p, Raise(me, "OpenCursorError"))

\* cur.execute('BEGIN DEFERRED TRANSACTION') or
\* cur.execute('BEGIN IMMEDIATE TRANSACTION'); the immediate transaction
\* takes the reserved lock and waits while another connection holds it
store_begin(p) ==
  /\ proc[p].pc \in StorePcs
  /\ proc[p].tx.at = "begin"
  /\ LET me == proc[p]
         mode == BeginMode(me)
     IN IF mode = "IMMEDIATE"
        THEN /\ ~WriteLocked(p)
             /\ Step(p, [Exec(me, "BEGIN IMMEDIATE") EXCEPT
                           !.tx.at = "body", !.tx.mode = mode,
                           !.tx.lock = "reserved"])
        ELSE Step(p, [Exec(me, "BEGIN DEFERRED") EXCEPT
                        !.tx.at = "body", !.tx.mode = mode])

\* BEGIN IMMEDIATE TRANSACTION has waited for db_timeout seconds while
\* another connection held the reserved lock: the statement fails, no
\* transaction is open, and except Exception raises SQLError
store_begin_busy(p) ==
  /\ proc[p].pc \in StorePcs
  /\ proc[p].tx.at = "begin"
  /\ BeginMode(proc[p]) = "IMMEDIATE"
  /\ WriteLocked(p)
  /\ Step(p, [proc[p] EXCEPT !.tx.at = "exit", !.tx.err = "SQLError"])

\* a statement of the operation has failed: control is in
\* except Exception as f, before its ROLLBACK
Failed(me, err) == [me EXCEPT !.tx.at = "rollback", !.tx.err = err]

\* the operation has read: a deferred transaction holds a shared lock from
\* its first SELECT on
Read(me) ==
  [Exec(me, "SELECT") EXCEPT
     !.tx.at = "commit",
     !.tx.lock = IF me.tx.mode = "DEFERRED" THEN "shared" ELSE @]

\* the statements between BEGIN and COMMIT: the SELECT of apply_remap (and
\* its test of the dest13 found), of isbn_cached, of isbndb_param, of
\* info() and of pic(), and the INSERT of isbndb_query, which fails when a
\* row with this isbn13 exists; any of them may fail
store_execute(p) ==
  /\ proc[p].pc \in StorePcs
  /\ proc[p].tx.at = "body"
  /\ LET me == proc[p]
         db == me.dbpath
         fn == me.tx.fn
         dest == RemapDest(db, me.isbn13)
     IN \/ Step(p, Failed(me, "SQLError"))
        \/ /\ fn = "apply_remap"
           /\ IF dest = NoIsbn
              THEN Step(p, [Read(me) EXCEPT !.tx.isbn = me.isbn13])
              ELSE IF ~is_isbn13(dest)
                   THEN Step(p, [Read(me) EXCEPT
                                   !.tx.at = "rollback",
                                   !.tx.err = "DatabaseIntegrityError"])
                   ELSE Step(p, [Read(me) EXCEPT !.tx.isbn = dest])
        \/ /\ fn = "isbn_cached"
           /\ Step(p, [Read(me) EXCEPT !.tx.found = HasBook(db, me.isbn13)])
        \/ /\ fn = "isbndb_param"
           /\ Step(p, [Read(me) EXCEPT
                         !.tx.val = IF KeyVal(db, "isbndb") # None
                                    THEN KeyVal(db, "isbndb_lock")
                                    ELSE None])
        \/ /\ fn = "info"
           /\ Step(p, [Read(me) EXCEPT !.tx.val = SelectJson(db, me.isbn13)])
        \/ /\ fn = "pic"
           /\ Step(p, [Read(me) EXCEPT !.tx.val = SelectCover(db, me.isbn13)])
        \/ /\ fn = "isbndb_query"
           /\ IF HasBook(db, me.isbn13)
              THEN Step(p, Failed(Note(me, {"rollback"}), "SQLError"))
              ELSE \E ts \in 0..MaxClock :
                     Step(p, [Exec(me, "INSERT") EXCEPT
                                !.tx.at = "commit",
                                !.tx.row = {NewRow(me, ts)}])

\* the transaction is over: the locks of the connection are released
Ended(me, stmt) ==
  [Exec(me, stmt) EXCEPT !.tx.at = "exit", !.tx.mode = None,
                         !.tx.lock = "none", !.tx.row = {}]

\* cur.execute('COMMIT TRANSACTION'): the row inserted becomes visible;
\* the commit of a change waits while another connection holds a shared
\* lock
store_commit(p) ==
  /\ proc[p].pc \in StorePcs
  /\ proc[p].tx.at = "commit"
  /\ LET me == proc[p] IN
       IF me.tx.row # {}
       THEN /\ ~ReadLocked(p)
            /\ books' = [books EXCEPT ![me.dbpath] = @ \cup me.tx.row]
            /\ proc' = [proc EXCEPT ![p] = Ended(me, "COMMIT")]
            /\ UNCHANGED <<dbfiles, remap, keys, lockOwner>>
       ELSE Step(p, Ended(me, "COMMIT"))

\* COMMIT TRANSACTION has waited for db_timeout seconds while another
\* connection held a shared lock: the statement fails and control is in
\* except Exception as f
store_commit_busy(p) ==
  /\ proc[p].pc \in StorePcs
  /\ proc[p].tx.at = "commit"
  /\ proc[p].tx.row # {}
  /\ ReadLocked(p)
  /\ Step(p, Failed(proc[p], "SQLError"))

\* store operations whose except clause raises without ROLLBACK
store_rollback_none(p) ==
  /\ proc[p].pc \in StorePcs
  /\ proc[p].tx.at = "rollback"
  /\ Step(p, [proc[p] EXCEPT !.tx.at = "exit"])

\* except Exception as f: cur.execute('ROLLBACK TRANSACTION'); raise f
store_rollback(p) ==
  /\ proc[p].pc \in StorePcs
  /\ proc[p].tx.at = "rollback"
  /\ Step(p, Ended(proc[p], "ROLLBACK"))

\* finally: cur.close(); the operation raises its exception or returns,
\* and the function that called it goes on: query() with the remapped
\* ISBN, with result = True for a cached book, with the access information
\* that isbndb_param checks in the file system; isbndb_query with
\* return True after the double-check or with its first json_query call,
\* and with the final delay after the insert; info() and pic() with the
\* remapped ISBN and with the value read
store_return(p) ==
  /\ proc[p].pc \in StorePcs
  /\ proc[p].tx.at = "exit"
  /\ LET me == proc[p]
         tx == me.tx
         q == [me EXCEPT !.tx = NoTx]
     IN IF tx.err # None
        THEN Step(p, Raise(me, tx.err))
        ELSE CASE me.pc = "remap" ->
                    Step(p, [q EXCEPT !.pc = "cached", !.isbn13 = tx.isbn])
               [] me.pc = "r_remap" ->
                    Step(p, [q EXCEPT !.pc = "r_select", !.isbn13 = tx.isbn])
               [] me.pc = "cached" ->
                    IF tx.found
                    THEN Step(p, Finish(Note(q, {"hit"}), "True"))
                    ELSE Step(p, [Note(q, {"miss"}) EXCEPT !.pc = "param"])
               [] me.pc = "param" ->
                    \E kind \in FileKinds :
                      IF tx.val # None /\ IsAbs(tx.val) /\ IsFile(kind)
                           /\ ~IsLink(kind)
                      THEN Step(p, [q EXCEPT !.pc = "open",
                                             !.iparam = tx.val])
                      ELSE Step(p, Finish(Note(q, {"noparam"}), "False"))
               [] me.pc = "check" ->
                    IF tx.found
                    THEN Step(p, Leave(Note(q, {"dchit"}), "True"))
                    ELSE Step(p, [Note(q, {"dcmiss", "json"}) EXCEPT
                                    !.pc = "jcall"])
               [] me.pc = "insert" ->
                    Step(p, [Note(q, {"insert"}) EXCEPT
                               !.pc = "fsleep", !.outcome = "True"])
               [] me.pc = "r_select" ->
                    Step(p, Finish(q, tx.val))

\* a step inside a store operation
StoreStep ==
  \/ \E p \in Procs : store_cursor(p)
  \/ \E p \in Procs : store_begin(p)
  \/ \E p \in Procs : store_begin_busy(p)
  \/ \E p \in Procs : store_execute(p)
  \/ \E p \in Procs : store_commit(p)
  \/ \E p \in Procs : store_commit_busy(p)
  \/ \E p \in Procs : store_rollback(p)
  \/ \E p \in Procs : store_return(p)

\* a step of query(), info() or pic() outside the store operations
CallStep ==
  \/ \E p \in Procs : query_enter(p)
  \/ \E p \in Procs : read_enter(p)
  \/ \E p \in Procs : query_open(p)
  \/ \E p \in Procs : query_lock(p)
  \/ \E p \in Procs : json_query_return(p)
  \/ \E p \in Procs : json_query_retry(p)
  \/ \E p \in Procs : img_query_return(p)
  \/ \E p \in Procs : img_query_retry(p)
  \/ \E p \in Procs : isbndb_query_return(p)
  \/ \E p \in Procs : query_unlock(p)
  \/ \E p \in Procs : query_close(p)

\* ------------------------------------------------------------------------
\* Administration
\* ------------------------------------------------------------------------

\* gary_admin.py isbndb [api_key] [lockfile_path]: registers the API key
\* and the lockfile path, overwriting the rows that are there; the path
\* must be absolute and, at that time, a regular file that is no link
setAPIKey(db, lfp) ==
  /\ db \in dbfiles
  /\ IsAbs(lfp)
  /\ \E kind \in FileKinds : IsFile(kind) /\ ~IsLink(kind)
  /\ keys' = [keys EXCEPT ![db] = KeyRows(lfp)]
  /\ UNCHANGED <<dbfiles, books, remap, lockOwner, proc>>

\* ------------------------------------------------------------------------
\* gary_admin.py remap [src13] [dest13] and remap [src13]
\* ------------------------------------------------------------------------

\* norm_isbn13 of gary_admin.py: s without its hyphens, spaces and tabs
\* (is_isbn13 of gary_admin.py is, statement by statement, is_isbn13 of
\* gary.py)
norm_isbn13(s) == SelectSeq(s, LAMBDA c : c \notin {"-", " ", "\t"})

\* the process of a remap command that has ended with `what` (None when
\* the function returned)
AdminEnd(cmd, db, src, dest, r, what) ==
  [IdleProc EXCEPT !.op = cmd, !.pc = "done", !.dbpath = db,
                   !.adm = [src |-> src, dest |-> dest, r |-> r],
                   !.outcome = what]

\* a process that may run a command of gary_admin.py: every command is a
\* process of its own, so one that ran a command stands for the next
AdminProc(p) == proc[p].op \in {None, "addRemap", "dropRemap"}

\* addRemap without the comparison of src and dest
addRemap_nosame(p, db, src, dest) ==
  /\ AdminProc(p)
  /\ db \in dbfiles
  /\ LET s == norm_isbn13(src)
         d == norm_isbn13(dest)
         end(r, what) ==
           proc' = [proc EXCEPT
                      ![p] = AdminEnd("addRemap", db, src, dest, r, what)]
     IN IF (~is_isbn13(s)) \/ (~is_isbn13(d))
        THEN end(NoIsbn, "InvalidISBNError")
               /\ UNCHANGED <<store, lockOwner>>
        ELSE \/ end(NoIsbn, "SQLError") /\ UNCHANGED <<store, lockOwner>>
             \/ /\ end(RemapDest(db, s), None)
                /\ remap' =
                     [remap EXCEPT ![db] =
                        IF RemapDest(db, s) = NoIsbn
                        THEN @ \cup {[src13 |-> s, dest13 |-> d]}
                        ELSE IF RemapDest(db, s) # d
                        THEN {IF x.src13 = s THEN [x EXCEPT !.dest13 = d]
                              ELSE x : x \in @}
                        ELSE @]
                /\ UNCHANGED <<dbfiles, books, keys, lockOwner>>

\* addRemap(dbc, src, dest), called by the remap command with two
\* arguments on a connection in auto-commit mode: InvalidISBNError and
\* SameISBNError before any statement; then, in one immediate transaction,
\* SELECT dest13 for src, INSERT when there is no row, UPDATE when the row
\* has another dest13, COMMIT. SQLError when a statement fails (the
\* database is locked by another connection), after ROLLBACK
addRemap(p, db, src, dest) ==
  /\ AdminProc(p)
  /\ db \in dbfiles
  /\ LET s == norm_isbn13(src)
         d == norm_isbn13(dest)
         end(r, what) ==
           proc' = [proc EXCEPT
                      ![p] = AdminEnd("addRemap", db, src, dest, r, what)]
     IN IF (~is_isbn13(s)) \/ (~is_isbn13(d))
        THEN end(NoIsbn, "InvalidISBNError")
               /\ UNCHANGED <<store, lockOwner>>
        ELSE IF s = d
        THEN end(NoIsbn, "SameISBNError") /\ UNCHANGED <<store, lockOwner>>
        ELSE \/ end(NoIsbn, "SQLError") /\ UNCHANGED <<store, lockOwner>>
             \/ /\ end(RemapDest(db, s), None)
                /\ remap' =
                     [remap EXCEPT ![db] =
                        IF RemapDest(db, s) = NoIsbn
                        THEN @ \cup {[src13 |-> s, dest13 |-> d]}
                        ELSE IF RemapDest(db, s) # d
                        THEN {IF x.src13 = s THEN [x EXCEPT !.dest13 = d]
                              ELSE x : x \in @}
                        ELSE @]
                /\ UNCHANGED <<dbfiles, books, keys, lockOwner>>

\* dropRemap(dbc, src), called by the remap command with one argument:
\* InvalidISBNError before any statement; then, in one immediate
\* transaction, DELETE FROM remap WHERE src13=? and COMMIT. SQLError when
\* a statement fails, after ROLLBACK
dropRemap(p, db, src) ==
  /\ AdminProc(p)
  /\ db \in dbfiles
  /\ LET s == norm_isbn13(src)
         end(what) ==
           proc' = [proc EXCEPT
                      ![p] = AdminEnd("dropRemap", db, src, <<>>, <<>>, what)]
     IN IF ~is_isbn13(s)
        THEN end("InvalidISBNError") /\ UNCHANGED <<store, lockOwner>>
        ELSE \/ end("SQLError") /\ UNCHANGED <<store, lockOwner>>
             \/ /\ end(None)
                /\ remap' = [remap EXCEPT ![db] = {x \in @ : x.src13 # s}]
                /\ UNCHANGED <<dbfiles, books, keys, lockOwner>>

\* a remap command of the administrator
AdminStep ==
  \/ \E p \in Admins, db \in DBs, src \in AdminArgs, dest \in AdminArgs :
       addRemap(p, db, src, dest)
  \/ \E p \in Admins, db \in DBs, src \in AdminArgs : dropRemap(p, db, src)

\* ------------------------------------------------------------------------
\* main_sync
\* ------------------------------------------------------------------------

\* main_sync ends with status st and control is back in the entrypoint:
\* after a return nothing more is done, an exception is reported on
\* standard error and print('false') writes to standard output
SyncEnd(me, st) ==
  [me EXCEPT !.pc = "s_done", !.sync.status = st,
             !.sync.stdout = IF st = "ok" THEN @ ELSE Append(@, "false")]

\* main_sync that deletes the rows of the ISBNs reported so far when it
\* raises BadSyncListError
main_sync_line_rollback(p) ==
  /\ proc[p].pc = "s_line"
  /\ LET me == proc[p] IN
       IF me.sync.stdin = <<>>
       THEN Step(p, SyncEnd(me, "ok"))
       ELSE LET line == strip(Head(me.sync.stdin))
                rd == [me EXCEPT !.sync.stdin = Tail(@), !.sync.line = line]
                isbn == norm_isbn(line)
                batch == {me.sync.loaded[i] : i \in 1..Len(me.sync.loaded)}
            IN IF Len(line) < 1
               THEN Step(p, rd)
               ELSE IF ~isbn.ok
                    THEN /\ proc' = [proc EXCEPT
                                       ![p] = SyncEnd(rd, "BadSyncListError")]
                         /\ books' = [books EXCEPT ![me.dbpath] =
                                        {r \in @ : r.isbn13 \notin batch}]
                         /\ UNCHANGED <<dbfiles, remap, keys, lockOwner>>
                    ELSE Step(p, [rd EXCEPT !.pc = "s_loop",
                                            !.sync.isbn = isbn.isbn,
                                            !.sync.calls = 0])

\* main_sync that skips a line that norm_isbn rejects
main_sync_line_skip(p) ==
  /\ proc[p].pc = "s_line"
  /\ LET me == proc[p] IN
       IF me.sync.stdin = <<>>
       THEN Step(p, SyncEnd(me, "ok"))
       ELSE LET line == strip(Head(me.sync.stdin))
                rd == [me EXCEPT !.sync.stdin = Tail(@), !.sync.line = line]
                isbn == norm_isbn(line)
            IN IF Len(line) < 1 \/ ~isbn.ok
               THEN Step(p, rd)
               ELSE Step(p, [rd EXCEPT !.pc = "s_loop",
                                       !.sync.isbn = isbn.isbn,
                                       !.sync.calls = 0])

\* for line in sys.stdin: the next line is read, stripped, skipped when
\* empty and normalized; BadSyncListError when norm_isbn returns False
main_sync_line(p) ==
  /\ proc[p].pc = "s_line"
  /\ LET me == proc[p] IN
       IF me.sync.stdin = <<>>
       THEN Step(p, SyncEnd(me, "ok"))
       ELSE LET line == strip(Head(me.sync.stdin))
                rd == [me EXCEPT !.sync.stdin = Tail(@), !.sync.line = line]
                isbn == norm_isbn(line)
            IN IF Len(line) < 1
               THEN Step(p, rd)
               ELSE IF ~isbn.ok
                    THEN Step(p, SyncEnd(rd, "BadSyncListError"))
                    ELSE Step(p, [rd EXCEPT !.pc = "s_loop",
                                            !.sync.isbn = isbn.isbn,
                                            !.sync.calls = 0])

\* the retry loop with one attempt more than LONG_RETRY_COUNT
main_sync_attempt_onemore(p) ==
  /\ proc[p].pc = "s_loop"
  /\ LET me == proc[p] IN
       IF me.sync.calls <= LONG_RETRY_COUNT
       THEN LET call == [me EXCEPT !.op = "query", !.arg = me.sync.isbn,
                                   !.isbn13 = me.sync.isbn,
                                   !.sync.calls = @ + 1]
            IN IF EnterFault(me.dbpath, me.sync.isbn) # None
               THEN Step(p, Finish(call, EnterFault(me.dbpath, me.sync.isbn)))
               ELSE Step(p, [call EXCEPT !.pc = "remap"])
       ELSE Step(p, SyncEnd(me, "SyncError"))

\* for i in range(0, LONG_RETRY_COUNT): query(dbpath, isbn) is called, with
\* its parameter checks; after the loop, SyncError
main_sync_attempt(p) ==
  /\ proc[p].pc = "s_loop"
  /\ LET me == proc[p] IN
       IF me.sync.calls < LONG_RETRY_COUNT
       THEN LET call == [me EXCEPT !.op = "query", !.arg = me.sync.isbn,
                                   !.isbn13 = me.sync.isbn,
                                   !.sync.calls = @ + 1]
            IN IF EnterFault(me.dbpath, me.sync.isbn) # None
               THEN Step(p, Finish(call, EnterFault(me.dbpath, me.sync.isbn)))
               ELSE Step(p, [call EXCEPT !.pc = "remap"])
       ELSE Step(p, SyncEnd(me, "SyncError"))

\* main_sync that takes a query() call that returned False for a success
main_sync_result_anyway(p) ==
  /\ proc[p].pc = "done"
  /\ proc[p].sync.cmd = "sync"
  /\ LET me == proc[p]
         back == [IdleProc EXCEPT !.dbpath = me.dbpath, !.sync = me.sync]
     IN IF me.outcome \in {"True", "False"}
        THEN Step(p, [back EXCEPT !.pc = "s_line",
                                  !.sync.loaded = Append(@, me.sync.isbn)])
        ELSE Step(p, SyncEnd(me, me.outcome))

\* query() has returned or raised in main_sync: True ends the loop and the
\* ISBN is reported, False goes to the next attempt, an exception ends
\* main_sync
main_sync_result(p) ==
  /\ proc[p].pc = "done"
  /\ proc[p].sync.cmd = "sync"
  /\ LET me == proc[p]
         back == [IdleProc EXCEPT !.dbpath = me.dbpath, !.sync = me.sync]
     IN IF me.outcome = "True"
        THEN Step(p, [back EXCEPT !.pc = "s_line",
                                  !.sync.loaded = Append(@, me.sync.isbn)])
        ELSE IF me.outcome = "False"
             THEN Step(p, [back EXCEPT !.pc = "s_loop"])
             ELSE Step(p, SyncEnd(me, me.outcome))

\* a step of some process's main_sync
SyncStep ==
  \/ \E p \in Procs : main_sync_line(p)
  \/ \E p \in Procs : main_sync_attempt(p)
  \/ \E p \in Procs : main_sync_result(p)

\* ------------------------------------------------------------------------
\* main_json, main_pic, main_query
\* ------------------------------------------------------------------------

\* the main function ends with status st ("ok" or the exception raised,
\* which the entrypoint answers with print('false')) after printing out
CliEnd(me, st, out) ==
  [me EXCEPT !.pc = "m_done", !.sync.status = st,
             !.sync.stdout = Append(@, out)]

\* isbn = norm_isbn(isbn); ISBNParamError when it returns False; else
\* query(dbpath, isbn) is called, with its parameter checks
main_isbn_start(p) ==
  /\ proc[p].pc = "m_start"
  /\ LET me == proc[p]
         isbn == norm_isbn(me.sync.line)
         call == [me EXCEPT !.op = "query", !.arg = isbn.isbn,
                            !.isbn13 = isbn.isbn, !.sync.isbn = isbn.isbn,
                            !.sync.calls = 1]
     IN IF ~isbn.ok
        THEN Step(p, CliEnd(me, "ISBNParamError", "false"))
        ELSE IF EnterFault(me.dbpath, isbn.isbn) # None
             THEN Step(p, Finish(call, EnterFault(me.dbpath, isbn.isbn)))
             ELSE Step(p, [call EXCEPT !.pc = "remap"])

\* query() has returned or raised in main_json, main_pic or main_query:
\* False prints false; True prints true in main_query, and is followed by
\* the call of info() in main_json and of pic() in main_pic; an exception
\* ends the main function
main_isbn_queried(p) ==
  /\ proc[p].pc = "done"
  /\ proc[p].sync.cmd \in IsbnModes
  /\ proc[p].op = "query"
  /\ LET me == proc[p]
         back == [IdleProc EXCEPT !.dbpath = me.dbpath, !.sync = me.sync]
         call == [back EXCEPT
                    !.op = IF me.sync.cmd = "json" THEN "info" ELSE "pic",
                    !.arg = me.sync.isbn, !.isbn13 = me.sync.isbn]
     IN IF me.outcome = "False"
        THEN Step(p, CliEnd(me, "ok", "false"))
        ELSE IF me.outcome # "True"
        THEN Step(p, CliEnd(me, me.outcome, "false"))
        ELSE IF me.sync.cmd = "query"
        THEN Step(p, CliEnd(me, "ok", "true"))
        ELSE IF EnterFault(me.dbpath, me.sync.isbn) # None
        THEN Step(p, Finish(call, EnterFault(me.dbpath, me.sync.isbn)))
        ELSE Step(p, [call EXCEPT !.pc = "r_remap"])

\* info() or pic() has returned or raised in main_json or main_pic: None
\* prints false, a result is printed, an exception ends the main function
main_isbn_read(p) ==
  /\ proc[p].pc = "done"
  /\ proc[p].sync.cmd \in IsbnModes
  /\ proc[p].op \in {"info", "pic"}
  /\ LET me == proc[p] IN
       IF me.outcome = None
       THEN Step(p, CliEnd(me, "ok", "false"))
       ELSE IF me.outcome \in JsonTexts \cup ImgBytes
            THEN Step(p, CliEnd(me, "ok", me.outcome))
            ELSE Step(p, CliEnd(me, me.outcome, "false"))

\* a step of some process's main_json, main_pic or main_query
CliStep ==
  \/ \E p \in Procs : main_isbn_start(p)
  \/ \E p \in Procs : main_isbn_queried(p)
  \/ \E p \in Procs : main_isbn_read(p)

\* ------------------------------------------------------------------------
\* Calls of norm_isbn, is_isbn13 and compute_isbn_check
\* ------------------------------------------------------------------------

\* t = norm_isbn(s)
norm_isbn_call(p) ==
  /\ proc[p].pc = "f_start"
  /\ LET r == norm_isbn(proc[p].calc.s) IN
       Step(p, [proc[p] EXCEPT !.pc = "f_norm", !.calc.ok = r.ok,
                               !.calc.t = r.isbn])

\* is_isbn13(s), and is_isbn13(t) when norm_isbn returned t
is_isbn13_call(p) ==
  /\ proc[p].pc = "f_norm"
  /\ LET c == proc[p].calc IN
       Step(p, [proc[p] EXCEPT
                  !.pc = "f_valid",
                  !.calc.v13s = is_isbn13(c.s),
                  !.calc.v13t = IF c.ok THEN is_isbn13(c.t) ELSE FALSE])

\* norm_isbn(t), when norm_isbn returned t
norm_isbn_again(p) ==
  /\ proc[p].pc = "f_valid"
  /\ LET c == proc[p].calc
         r == norm_isbn(c.t)
     IN IF c.ok
        THEN Step(p, [proc[p] EXCEPT !.pc = "f_again", !.calc.ok2 = r.ok,
                                     !.calc.tt = r.isbn])
        ELSE Step(p, [proc[p] EXCEPT !.pc = "f_again"])

\* compute_isbn_check(s[0:len(s)-1]): the check digit of s without its last
\* character
compute_isbn_check_call(p) ==
  /\ proc[p].pc = "f_again"
  /\ LET s == proc[p].calc.s IN
       Step(p, [proc[p] EXCEPT
                  !.pc = "f_done",
                  !.calc.chk = compute_isbn_check(SubSeq(s, 1, Len(s) - 1))])

\* a step of a process that applies the ISBN functions
IsbnStep ==
  \/ \E p \in Procs : norm_isbn_call(p)
  \/ \E p \in Procs : is_isbn13_call(p)
  \/ \E p \in Procs : norm_isbn_again(p)
  \/ \E p \in Procs : compute_isbn_check_call(p)

\* a step of some process inside query()
QueryBody ==
  \/ \E p \in Procs : query_remap(p)
  \/ \E p \in Procs : query_cached(p)
  \/ \E p \in Procs : query_param(p)
  \/ \E p \in Procs : query_open(p)
  \/ \E p \in Procs : query_lock(p)
  \/ \E p \in Procs : isbndb_query_check(p)
  \/ \E p \in Procs : json_query_return(p)
  \/ \E p \in Procs : json_query_retry(p)
  \/ \E p \in Procs : img_query_return(p)
  \/ \E p \in Procs : img_query_retry(p)
  \/ \E p \in Procs : isbndb_query_insert(p)
  \/ \E p \in Procs : isbndb_query_return(p)
  \/ \E p \in Procs : query_unlock(p)
  \/ \E p \in Procs : query_close(p)

\* a step of process p inside query()
QueryBodyOf(p) ==
  \/ query_remap(p)
  \/ query_cached(p)
  \/ query_param(p)
  \/ query_open(p)
  \/ query_lock(p)
  \/ isbndb_query_check(p)
  \/ json_query_return(p)
  \/ json_query_retry(p)
  \/ img_query_return(p)
  \/ img_query_retry(p)
  \/ isbndb_query_insert(p)
  \/ isbndb_query_return(p)
  \/ query_unlock(p)
  \/ query_close(p)

\* a step of some process's query() call
QueryStep ==
  \/ \E p \in Procs : query_enter(p)
  \/ QueryBody

\* a step of some process's info() or pic() call
ReadStep ==
  \/ \E p \in Procs : read_enter(p)
  \/ \E p \in Procs : read_remap(p)
  \/ \E p \in Procs : info_select(p)
  \/ \E p \in Procs : pic_select(p)

\* processes run query(), info() and pic() while the administrator may
\* register a lockfile
Next ==
  \/ QueryStep
  \/ ReadStep
  \/ \E db \in DBs, lfp \in Paths : setAPIKey(db, lfp)

\* calls against one database
Spec == Init /\ [][Next]_vars

\* calls against two databases whose registration does not change
SpecShared == InitShared /\ [][QueryStep \/ ReadStep]_vars

\* calls against a database whose remap table holds a chain or a cycle
SpecRemap == InitRemap /\ [][QueryStep \/ ReadStep]_vars

\* calls whose sleeps and fetches are recorded
SpecTimed == InitTimed /\ [][QueryStep \/ ReadStep]_vars

\* one process in sync mode
SpecSync == InitSync /\ [][SyncStep \/ QueryBody]_vars

\* one process in sync mode and one making a call, against a remap table
\* with a dest13 that is not an ISBN-13
SpecIntegrity ==
  InitIntegrity /\ [][SyncStep \/ QueryStep \/ ReadStep]_vars

\* one process in the json, pic or query mode and one making a call
SpecCli == InitCli /\ [][CliStep \/ QueryStep \/ ReadStep]_vars

\* the ISBN functions applied to a string
SpecIsbn == InitIsbn /\ [][IsbnStep]_vars

\* calls of query() by processes that are scheduled again and again, whose
\* external calls return and whose sleeps end: a process that can go on
\* inside query() does so
SpecLive ==
  /\ InitLive
  /\ [][QueryStep]_vars
  /\ \A p \in Procs : WF_vars(QueryBodyOf(p))

\* isbndb_query called with retry counts and delays
SpecParams == InitParams /\ [][ParStep]_vars

\* a step of the statement-by-statement calls, while the administrator
\* may register another lockfile
TxNext ==
  \/ CallStep
  \/ StoreStep
  \/ \E db \in DBs, lfp \in Paths : setAPIKey(db, lfp)

\* calls whose store operations run statement by statement
SpecTx == InitTx /\ [][TxNext]_vars

\* the administrator adding, changing and dropping remappings of db1
SpecAdmin == InitAdmin /\ [][AdminStep]_vars

\* ------------------------------------------------------------------------
\* Properties
\* ------------------------------------------------------------------------

\* p's call has returned or raised
Done(p) == proc[p].pc = "done"

\* p is executing json_query or img_query
InExternalCall(p) == proc[p].pc \in {"jcall", "icall"}

\* p holds the exclusive lock on the lockfile it obtained
HoldsLock(p) ==
  /\ proc[p].iparam \in AbsPaths
  /\ lockOwner[proc[p].iparam] = p

\* the rows of books[db] for isbn
RowsOf(db, isbn) == {r \in books[db] : r.isbn13 = isbn}

\* C1: of the processes that obtained the same lockfile path, whatever
\* their ISBNs and databases, at most one is executing an external call
\* (json_query or img_query) at any moment
C1_OneExternalCallPerLockfile ==
  \A p, q \in Procs :
    (p # q /\ InExternalCall(p) /\ InExternalCall(q))
      => proc[p].iparam # proc[q].iparam

\* C1 witness: a process is in an external call while another process, of
\* another database and asking for another ISBN, waits for the same
\* lockfile
C1_Witness ==
  \E p, q \in Procs :
    /\ InExternalCall(p)
    /\ proc[q].pc = "lock"
    /\ proc[q].iparam = proc[p].iparam
    /\ proc[q].dbpath # proc[p].dbpath
    /\ proc[q].isbn13 # proc[p].isbn13

\* the service answered every request of p's call with book data that
\* isbndb_query accepts
ServiceAnswered(p) == proc[p].events \cap {"svcfail", "numimage"} = {}

\* p and q made concurrent query() calls for the same uncached ISBN-13 on
\* the same database with the same lockfile, the service answered, the
\* database gave each of them a cursor, and both calls are over
C2_Race(p, q) ==
  /\ p # q
  /\ Done(p) /\ Done(q)
  /\ proc[p].op = "query" /\ proc[q].op = "query"
  /\ proc[p].dbpath = proc[q].dbpath
  /\ proc[p].isbn13 = proc[q].isbn13
  /\ "lock" \in proc[p].events /\ "lock" \in proc[q].events
  /\ proc[p].iparam = proc[q].iparam
  /\ ServiceAnswered(p) /\ ServiceAnswered(q)
  /\ proc[p].outcome # "OpenCursorError"
  /\ proc[q].outcome # "OpenCursorError"

\* C2: two concurrent query() calls for the same uncached ISBN-13, same
\* database, same lockfile, service answering: exactly one of them contacts
\* the service, exactly one row for the ISBN is in books, both return True
\* (so neither raises SQLError from the unique constraint)
C2_SingleFlight ==
  \A p, q \in Procs :
    C2_Race(p, q) =>
      /\ proc[p].outcome = "True" /\ proc[q].outcome = "True"
      /\ ("json" \in proc[p].events) # ("json" \in proc[q].events)
      /\ Cardinality(RowsOf(proc[p].dbpath, proc[p].isbn13)) = 1

\* C2 witness: such a race is over; one call inserted the row, the other
\* found it in the double-check
C2_Witness ==
  \E p, q \in Procs :
    /\ C2_Race(p, q)
    /\ "insert" \in proc[p].events
    /\ "dchit" \in proc[q].events

\* C3: a call whose double-check under the lock finds the record returns
\* True, having called neither json_query nor img_query and inserted
\* nothing
C3_DoubleCheckHit ==
  \A p \in Procs :
    "dchit" \in proc[p].events =>
      /\ proc[p].outcome = "True"
      /\ proc[p].pc \in {"unlock", "close", "done"}
      /\ proc[p].events \cap {"json", "img", "insert", "rollback"} = {}

\* C3 witness: a call has returned after its double-check found the record
C3_Witness ==
  \E p \in Procs : Done(p) /\ "dchit" \in proc[p].events

\* C4: a process that is executing json_query or img_query, or is at the
\* INSERT into books, holds the exclusive lock on its lockfile; a process
\* that has contacted the service or inserted has acquired the lock before
C4_OnlyTheHolderFetches ==
  \A p \in Procs :
    /\ proc[p].pc \in {"jcall", "icall", "insert"} => HoldsLock(p)
    /\ proc[p].events \cap {"json", "img", "insert"} # {}
         => "lock" \in proc[p].events
    /\ (Done(p) \/ proc[p].pc \in {"idle", "remap", "cached", "param",
                                   "open", "lock", "close"})
         => ~HoldsLock(p)

\* C4 witness: a process holding the lock has fetched the JSON and the
\* image and is at the INSERT
C4_Witness ==
  \E p \in Procs :
    /\ proc[p].pc = "insert"
    /\ proc[p].imgdata # None
    /\ HoldsLock(p)

\* C5: after query() has returned or raised, the process holds no lock and
\* its lockfile descriptor is closed
C5_LockReleasedOnEveryExit ==
  \A p \in Procs :
    Done(p) =>
      /\ ~proc[p].lfd
      /\ \A path \in AbsPaths : lockOwner[path] # p

\* C5 witness: a call that had acquired the lock has raised the SQLError of
\* isbndb_query
C5_Witness ==
  \E p \in Procs :
    /\ Done(p)
    /\ "lock" \in proc[p].events
    /\ proc[p].outcome = "SQLError"

\* the events of a call that opened or locked a lockfile, contacted the
\* service or wrote to books
FetchEvents == {"open", "lock", "json", "img", "insert", "rollback"}

\* a row of books with every column set as the INSERT of isbndb_query sets
\* them: the cover is there exactly when the JSON names an image URL
WholeRow(r) ==
  /\ r.isbn13 # NoIsbn
  /\ r.fetched \in 0..MaxClock
  /\ r.json \in JsonTexts
  /\ ImageField(r.json) \in {"absent", None, "url"}
  /\ (ImageField(r.json) = "url") <=> (r.cover \in ImgBytes)
  /\ (ImageField(r.json) # "url") <=> (r.cover = None)

\* some call fetched isbn for db with success and committed its INSERT
Inserted(db, isbn) ==
  \E p \in Procs :
    /\ proc[p].dbpath = db
    /\ proc[p].isbn13 = isbn
    /\ "insert" \in proc[p].events
    /\ proc[p].outcome = "True"

\* C6: every row of books is whole (isbn13, fetched and json set, cover set
\* or NULL as the JSON says), and a row for an ISBN is there only when some
\* call's fetch of that ISBN succeeded and its INSERT was committed: a
\* failed fetch or a rolled-back insert leaves no row, and what info() and
\* pic() return was stored by such an INSERT
C6_RowsVisibleWhole ==
  /\ \A db \in DBs : \A r \in books[db] :
       WholeRow(r) /\ Inserted(db, r.isbn13)
  /\ \A p \in Procs :
       (Done(p) /\ proc[p].op \in {"info", "pic"}
          /\ proc[p].outcome \in JsonTexts \cup ImgBytes)
         => Inserted(proc[p].dbpath, proc[p].isbn13)

\* C6 witness: a call fetched the JSON of a book, failed to fetch its image
\* and returned False, and no row for its ISBN is in books, while the row
\* that another call inserted with its cover is there
C6_Witness ==
  \E p, q \in Procs :
    /\ Done(p) /\ proc[p].outcome = "False"
    /\ "img" \in proc[p].events
    /\ \A db \in DBs : db = proc[p].dbpath =>
         RowsOf(db, proc[p].isbn13) = {}
    /\ "insert" \in proc[q].events
    /\ \E db \in DBs : \E r \in books[db] :
         /\ db = proc[q].dbpath
         /\ r.isbn13 = proc[q].isbn13
         /\ r.cover # None

\* C7: a step removes no row of books and changes none; a step that adds
\* rows adds one row, and it is the INSERT of an isbndb_query call that has
\* fetched the book's JSON, which then returns True
C7_RecordsKept ==
  [][\A db \in DBs :
       /\ books[db] \subseteq books'[db]
       /\ books'[db] # books[db] =>
            \E p \in Procs :
              /\ proc[p].pc = "insert"
              /\ proc[p].dbpath = db
              /\ proc[p].jinfo \in JsonTexts
              /\ proc'[p].outcome = "True"
              /\ \E ts \in 0..MaxClock :
                   books'[db] = books[db] \cup
                     {[isbn13 |-> proc[p].isbn13, fetched |-> ts,
                       json |-> proc[p].jinfo, cover |-> proc[p].imgdata]}]_vars

\* C7 witness: a record is in books after the call that inserted it is
\* over and after a later INSERT for the same ISBN was rolled back
C7_Witness ==
  \E p, q \in Procs :
    /\ p # q
    /\ Done(p) /\ "insert" \in proc[p].events
    /\ Done(q) /\ "rollback" \in proc[q].events
    /\ proc[q].dbpath = proc[p].dbpath
    /\ proc[q].isbn13 = proc[p].isbn13
    /\ RowsOf(proc[p].dbpath, proc[p].isbn13) # {}

\* thirteen decimal digits d1..d13 with d1 + 3*d2 + d3 + ... + d13 a
\* multiple of ten
GoodCheckDigit(s) ==
  /\ Len(s) = 13
  /\ \A x \in 1..13 : IsDigit(s[x])
  /\ (DigitVal(s[1]) + 3 * DigitVal(s[2]) + DigitVal(s[3])
       + 3 * DigitVal(s[4]) + DigitVal(s[5]) + 3 * DigitVal(s[6])
       + DigitVal(s[7]) + 3 * DigitVal(s[8]) + DigitVal(s[9])
       + 3 * DigitVal(s[10]) + DigitVal(s[11]) + 3 * DigitVal(s[12])
       + DigitVal(s[13])) % 10 = 0

\* the ISBNs of the calls that have a correct check digit
GoodIsbns == {s \in IsbnInputs : GoodCheckDigit(s)}

\* C8: every isbn13 stored in books is thirteen decimal digits with a
\* correct check digit, as is_isbn13 tests, and no two rows of a database
\* have the same isbn13
C8_ValidUniqueKeys ==
  \A db \in DBs : \A r \in books[db] :
    /\ r.isbn13 \in GoodIsbns
    /\ is_isbn13(r.isbn13)
    /\ \A r2 \in books[db] : r2.isbn13 = r.isbn13 => r2 = r

\* C8 witness: a call has inserted a row, and a call whose ISBN the remap
\* table sends to an ISBN with a wrong check digit has raised
\* DatabaseIntegrityError
C8_Witness ==
  \E p, q \in Procs :
    /\ "insert" \in proc[p].events
    /\ RowsOf(proc[p].dbpath, proc[p].isbn13) # {}
    /\ Done(q) /\ proc[q].op = "query"
    /\ proc[q].outcome = "DatabaseIntegrityError"
    /\ \E m \in remap[proc[q].dbpath] :
         m.src13 = proc[q].arg /\ m.dest13 \notin GoodIsbns

\* C9: a query() call that finds the configuration not usable (no API key
\* row, no lockfile row, or a stored path that is not absolute or at which
\* there is no regular file that is no symbolic link) returns False: it
\* raises nothing, opens and locks no lockfile, makes no external call and
\* writes nothing
C9_NoConfigNoFetch ==
  \A p \in Procs :
    proc[p].events \cap {"nokey", "nolock", "notabs", "notfile", "islink"}
        # {}
      => /\ Done(p)
         /\ proc[p].outcome = "False"
         /\ ~proc[p].lfd
         /\ proc[p].iparam = None
         /\ proc[p].events \cap FetchEvents = {}
         /\ \A path \in AbsPaths : lockOwner[path] # p

\* C9 witness: one call returned False because the stored path is a
\* symbolic link, another because the stored path is not absolute
C9_Witness ==
  \E p, q \in Procs :
    /\ Done(p) /\ "islink" \in proc[p].events
    /\ Done(q) /\ "notabs" \in proc[q].events
    /\ proc[p].outcome = "False" /\ proc[q].outcome = "False"

\* C10: query(src13), with a remap row src13 -> dest13 and a record for
\* dest13 in books, goes on with dest13 and then returns True; it opens and
\* locks no lockfile, makes no external call and writes nothing
C10_RemappedHit ==
  [][\A p \in Procs :
       LET me == proc[p]
           dest == RemapDest(me.dbpath, me.arg)
       IN (me.op = "query" /\ proc'[p] # me /\ dest # NoIsbn
             /\ HasBook(me.dbpath, dest))
            => /\ me.pc = "remap" =>
                    proc'[p].pc = "cached" /\ proc'[p].isbn13 = dest
               /\ me.pc = "cached" =>
                    /\ me.isbn13 = dest
                    /\ proc'[p].pc = "done"
                    /\ proc'[p].outcome = "True"
                    /\ proc'[p].events \cap FetchEvents = {}
                    /\ ~proc'[p].lfd
                    /\ lockOwner' = lockOwner
                    /\ books' = books]_vars

\* C10 witness: query(src13) has returned True on the record of dest13
\* while src13 has no record
C10_Witness ==
  \E p \in Procs :
    /\ Done(p) /\ proc[p].op = "query"
    /\ proc[p].outcome = "True"
    /\ proc[p].isbn13 = RemapDest(proc[p].dbpath, proc[p].arg)
    /\ HasBook(proc[p].dbpath, proc[p].isbn13)
    /\ ~HasBook(proc[p].dbpath, proc[p].arg)
    /\ proc[p].events \cap FetchEvents = {}

\* the ISBN that one lookup in remap, keyed by isbn, leads to
OneLookup(db, isbn) ==
  IF \E m \in remap[db] : m.src13 = isbn
  THEN (CHOOSE m \in remap[db] : m.src13 = isbn).dest13
  ELSE isbn

\* C11: remap resolution is one lookup keyed by the ISBN given: after the
\* remap step query(), info() and pic() work on the dest13 of the row whose
\* src13 is their argument, and not on what dest13 is itself remapped to;
\* every record inserted and every value that info() or pic() returns
\* belongs to that ISBN
C11_SingleHop ==
  /\ \A p \in Procs :
       LET me == proc[p] IN
         /\ (me.op # None /\ me.pc \notin {"remap", "r_remap"})
              => me.isbn13 = OneLookup(me.dbpath, me.arg)
         /\ (Done(p) /\ me.op = "info" /\ me.outcome \in JsonTexts)
              => HasBook(me.dbpath, OneLookup(me.dbpath, me.arg))
         /\ (Done(p) /\ me.op = "pic" /\ me.outcome \in ImgBytes)
              => HasBook(me.dbpath, OneLookup(me.dbpath, me.arg))
  /\ \A db \in DBs : \A r \in books[db] :
       \E p \in Procs :
         proc[p].dbpath = db /\ r.isbn13 = OneLookup(db, proc[p].arg)

\* C11 witness: with rows A -> B and B -> A, a call for A has ended having
\* used B and a call for B has ended having used A
C11_Witness ==
  \E p, q \in Procs :
    /\ Done(p) /\ proc[p].arg = IsbnA /\ proc[p].isbn13 = IsbnB
    /\ Done(q) /\ proc[q].arg = IsbnB /\ proc[q].isbn13 = IsbnA
    /\ proc[p].outcome = "True"
    /\ proc[q].op = "info"

\* the remap row of db for isbn holds a dest13 with a wrong check digit
BadDest(db, isbn) ==
  \E m \in remap[db] : m.src13 = isbn /\ ~GoodCheckDigit(m.dest13)

\* p is past the remap step of a call of query(), info() or pic() that
\* found its database
PastRemap(p) ==
  /\ proc[p].op \in {"query", "info", "pic"}
  /\ proc[p].dbpath \in dbfiles
  /\ proc[p].pc \notin {"remap", "r_remap"}

\* C12: a call of query(), info() or pic() whose remap row holds a dest13
\* that is not an ISBN-13 raises DatabaseIntegrityError at its remap step:
\* it goes on with no ISBN, opens no lockfile, fetches and writes nothing;
\* no row is stored for such an ISBN; and main_sync ends with that error
\* after its first query() call for the line
C12_BadRemapRaises ==
  /\ \A p \in Procs :
       LET me == proc[p] IN
         /\ (PastRemap(p) /\ BadDest(me.dbpath, me.arg))
              => /\ me.pc \in {"done", "s_done"}
                 /\ me.outcome = "DatabaseIntegrityError"
                 /\ me.events = {}
                 /\ ~me.lfd /\ me.iparam = None
                 /\ \A path \in AbsPaths : lockOwner[path] # p
         /\ (me.sync.cmd = "sync" /\ me.sync.isbn # NoIsbn
               /\ BadDest(me.dbpath, me.sync.isbn))
              => /\ me.sync.calls <= 1
                 /\ me.pc \in {"s_loop", "remap", "done", "s_done"}
                 /\ me.pc = "s_loop" => me.sync.calls = 0
                 /\ me.pc = "s_done" =>
                      me.sync.status = "DatabaseIntegrityError"
  /\ \A db \in DBs : \A r \in books[db] :
       GoodCheckDigit(r.isbn13) /\ ~BadDest(db, r.isbn13)

\* C12 witness: main_sync has ended with DatabaseIntegrityError after one
\* query() call, with a line of input still unread, and an info() call for
\* the same ISBN has raised the same error
C12_Witness ==
  \E p, q \in Procs :
    /\ proc[p].pc = "s_done"
    /\ proc[p].sync.status = "DatabaseIntegrityError"
    /\ proc[p].sync.calls = 1
    /\ proc[p].sync.stdin # <<>>
    /\ Done(q) /\ proc[q].op = "info"
    /\ proc[q].arg = IsbnA
    /\ proc[q].outcome = "DatabaseIntegrityError"

\* the positions in log of the calls of f
CallsOf(log, f) == {k \in 1..Len(log) : log[k].call = f}

\* the positions in log of the sleeps of the delay named arg
SleepsOf(log, arg) ==
  {k \in 1..Len(log) : log[k].call = "sleep" /\ log[k].arg = arg}

\* C13: in an isbndb_query call that passed the double-check, json_query is
\* called at least once and at most jretry times, no json_query call
\* follows one that returned metadata, the first call comes before any
\* sleep, and every later call comes right after a sleep of jdelay that
\* follows the failed call before it
C13_JsonRetries ==
  \A p \in Procs :
    LET log == proc[p].log
        calls == CallsOf(log, "json_query")
    IN /\ Cardinality(calls) <= jretry
       /\ ("dcmiss" \in proc[p].events /\ proc[p].pc # "jcall")
            => calls # {}
       /\ "dcmiss" \notin proc[p].events => calls = {}
       /\ \A k \in calls :
            /\ log[k].ok => \A j \in calls : j <= k
            /\ IF \A j \in calls : k <= j
               THEN k = 1
               ELSE /\ k > 2
                    /\ log[k - 1] = SleepCall("jdelay", jdelay)
                    /\ log[k - 2].call = "json_query"
                    /\ ~log[k - 2].ok
       /\ \A k \in SleepsOf(log, "jdelay") :
            /\ k > 1
            /\ log[k - 1].call = "json_query" /\ ~log[k - 1].ok
       /\ Cardinality(SleepsOf(log, "jdelay")) < jretry

\* C13 witness: a call has made jretry json_query calls, the last of which
\* returned metadata, and has ended
C13_Witness ==
  \E p \in Procs :
    /\ Done(p)
    /\ Cardinality(CallsOf(proc[p].log, "json_query")) = jretry
    /\ \E k \in CallsOf(proc[p].log, "json_query") : proc[p].log[k].ok
    /\ proc[p].outcome = "True"

\* the seconds slept in the calls of log
RECURSIVE Slept(_)
Slept(log) ==
  IF log = <<>> THEN 0 ELSE Head(log).secs + Slept(Tail(log))

\* every json_query call of p's query() returned nothing, and the call is
\* over
AllJsonFailed(p) ==
  /\ Done(p)
  /\ CallsOf(proc[p].log, "json_query") # {}
  /\ \A k \in CallsOf(proc[p].log, "json_query") : ~proc[p].log[k].ok

\* C14: when every json_query attempt returned nothing, query() returns
\* False, has inserted no record, and has slept (jretry-1)*jdelay + fdelay
\* seconds in all
C14_JsonExhausted ==
  \A p \in Procs :
    AllJsonFailed(p) =>
      /\ proc[p].outcome = "False"
      /\ proc[p].events \cap {"insert", "rollback", "img"} = {}
      /\ Slept(proc[p].log) = (jretry - 1) * jdelay + fdelay
      /\ (\A q \in Procs : "insert" \notin proc[q].events)
           => books[proc[p].dbpath] = {}

\* C14 witness: a query() call whose jretry json_query attempts all failed
\* has returned False with an empty books table
C14_Witness ==
  \E p \in Procs :
    /\ AllJsonFailed(p)
    /\ Cardinality(CallsOf(proc[p].log, "json_query")) = jretry
    /\ proc[p].outcome = "False"
    /\ books[proc[p].dbpath] = {}

\* p's query() fetched metadata that names an image, every img_query call
\* returned nothing, and the call is over
AllImgFailed(p) ==
  /\ Done(p)
  /\ CallsOf(proc[p].log, "img_query") # {}
  /\ \A k \in CallsOf(proc[p].log, "img_query") : ~proc[p].log[k].ok

\* C15: when the metadata names an image and every img_query attempt
\* failed, there were iretry attempts, the last thing isbndb_query did was
\* to sleep fdelay, query() returns False, nothing was inserted, the
\* metadata is gone, and the ISBN has no record unless another call put it
\* there
C15_ImageExhausted ==
  \A p \in Procs :
    AllImgFailed(p) =>
      LET log == proc[p].log IN
        /\ proc[p].outcome = "False"
        /\ Cardinality(CallsOf(log, "img_query")) = iretry
        /\ log[Len(log)] = SleepCall("fdelay", fdelay)
        /\ SleepsOf(log, "fdelay") = {Len(log)}
        /\ \E k \in CallsOf(log, "json_query") : log[k].ok
        /\ proc[p].events \cap {"insert", "rollback"} = {}
        /\ proc[p].jinfo = None
        /\ (\A q \in Procs : "insert" \notin proc[q].events)
             => ~HasBook(proc[p].dbpath, proc[p].isbn13)

\* C15 witness: a query() call that fetched the metadata and failed iretry
\* times to fetch the image has returned False, and its ISBN has no record
C15_Witness ==
  \E p \in Procs :
    /\ AllImgFailed(p)
    /\ Cardinality(CallsOf(proc[p].log, "img_query")) = iretry
    /\ proc[p].outcome = "False"
    /\ ~HasBook(proc[p].dbpath, proc[p].isbn13)

\* isbndb_query, called by p under the lock, has returned True or False
Returned(p) ==
  /\ proc[p].pc \in {"unlock", "close", "done"}
  /\ "lock" \in proc[p].events
  /\ proc[p].outcome \in {"True", "False"}

\* the last call recorded in log is the sleep of fdelay
EndsWithFinalDelay(log) ==
  /\ log # <<>>
  /\ log[Len(log)] = SleepCall("fdelay", fdelay)

\* C16 as stated: isbndb_query sleeps fdelay before it returns on every
\* outcome reached under the lock: a successful fetch, a failed fetch, and
\* a double-check that found the record
C16_DelayOnEveryOutcome ==
  \A p \in Procs : Returned(p) => EndsWithFinalDelay(proc[p].log)

\* C16 amended: isbndb_query sleeps fdelay, once and as the last thing it
\* does, before it returns after a successful and after a failed fetch;
\* when the double-check under the lock finds the record it returns True
\* without any sleep
C16_DelayAfterContact ==
  \A p \in Procs :
    Returned(p) =>
      IF "dchit" \in proc[p].events
      THEN proc[p].log = <<>> /\ proc[p].outcome = "True"
      ELSE /\ EndsWithFinalDelay(proc[p].log)
           /\ SleepsOf(proc[p].log, "fdelay") = {Len(proc[p].log)}
           /\ CallsOf(proc[p].log, "json_query") # {}

\* C16 witness: one call has returned True after a fetch that ended with
\* the sleep of fdelay, another has returned True from the double-check
\* without having slept
C16_Witness ==
  \E p, q \in Procs :
    /\ Done(p) /\ "insert" \in proc[p].events
    /\ EndsWithFinalDelay(proc[p].log)
    /\ Done(q) /\ "dchit" \in proc[q].events
    /\ proc[q].outcome = "True"
    /\ proc[q].log = <<>>

\* C17: after the INSERT of a successful fetch is committed the record is
\* in books; the call then sleeps fdelay holding the lock, returns from
\* isbndb_query still holding it, releases it, and query() returns True
C17_SuccessOrder ==
  \A p \in Procs :
    "insert" \in proc[p].events =>
      LET me == proc[p] IN
        /\ HasBook(me.dbpath, me.isbn13)
        /\ me.outcome = "True"
        /\ me.pc \in {"fsleep", "unlock", "close", "done"}
        /\ me.pc = "fsleep" =>
             HoldsLock(p) /\ SleepsOf(me.log, "fdelay") = {}
        /\ me.pc = "unlock" =>
             HoldsLock(p) /\ EndsWithFinalDelay(me.log)
        /\ me.pc \in {"close", "done"} =>
             ~HoldsLock(p) /\ EndsWithFinalDelay(me.log)
        /\ me.pc = "done" => ~me.lfd

\* C17 witness: while a call that has committed its INSERT is in the sleep
\* of fdelay and holds the lock, an info() call of another process has
\* returned the JSON of the new record
C17_Witness ==
  \E p, q \in Procs :
    /\ "insert" \in proc[p].events
    /\ proc[p].pc = "fsleep"
    /\ HoldsLock(p)
    /\ Done(q) /\ proc[q].op = "info"
    /\ proc[q].dbpath = proc[p].dbpath
    /\ proc[q].isbn13 = proc[p].isbn13
    /\ proc[q].outcome \in JsonTexts

\* the ISBN-13 that an input line stands for
Canon(line) ==
  CASE line = LineA -> IsbnA
    [] line = LineB10 -> IsbnB
    [] OTHER -> NoIsbn

\* p's step makes a query() call from main_sync
SyncCalls(p) ==
  /\ proc[p].pc = "s_loop"
  /\ proc'[p].pc \in {"remap", "done"}

\* main_sync of p has ended on the input 9780306406157, garbage
EndedOnTwoLines(p) ==
  /\ proc[p].pc = "s_done"
  /\ \/ proc[p].sync.line = LineA /\ proc[p].sync.stdin = <<LineGarbage>>
     \/ /\ proc[p].sync.line = LineGarbage
        /\ proc[p].sync.stdin = <<>>
        /\ proc[p].sync.loaded = <<IsbnA>>

\* C18 as stated: main_sync over the lines 9780306406157 and garbage ends
\* on the second line with BadSyncListError, whatever the first line's
\* queries returned
C18_AbortsOnSecondLine ==
  \A p \in Procs :
    EndedOnTwoLines(p) =>
      /\ proc[p].sync.line = LineGarbage
      /\ proc[p].sync.status = "BadSyncListError"

\* C18: main_sync that reads a line which is no ISBN ends with
\* BadSyncListError in that step, without a query() call and without a
\* write; it ends with that error in no other case; once ended it reads no
\* further line and makes no call; every query() call it makes is for the
\* ISBN of the line read last, which is an ISBN; and when it ends with
\* lines unread on a line that is an ISBN, it ends with the failure of that
\* line's queries
C18_BadLineAborts ==
  [][\A p \in Procs :
       LET me == proc[p]
           nx == proc'[p]
       IN (me.sync.cmd = "sync" /\ nx # me) =>
            /\ me.pc # "s_done"
            /\ (me.pc = "s_line" /\ me.sync.stdin # <<>>
                  /\ Head(me.sync.stdin) = LineGarbage)
                 => /\ nx.pc = "s_done"
                    /\ nx.sync.status = "BadSyncListError"
                    /\ nx.sync.calls = me.sync.calls
                    /\ nx.sync.loaded = me.sync.loaded
                    /\ nx.op = me.op
                    /\ books' = books
            /\ nx.sync.status = "BadSyncListError"
                 => /\ me.pc = "s_line"
                    /\ Head(me.sync.stdin) = LineGarbage
            /\ SyncCalls(p)
                 => /\ Canon(me.sync.line) # NoIsbn
                    /\ nx.arg = Canon(me.sync.line)
                    /\ nx.op = "query"
            /\ nx.sync.loaded # me.sync.loaded
                 => nx.sync.loaded = Append(me.sync.loaded,
                                            Canon(me.sync.line))
            /\ (nx.pc = "s_done" /\ nx.sync.line # LineGarbage
                  /\ nx.sync.stdin # <<>>)
                 => /\ nx.sync.status \notin {"ok", "BadSyncListError"}
                    /\ nx.sync.calls >= 1]_vars

\* C18 witness: main_sync over the lines 9780306406157 and garbage has
\* loaded the first, has ended with BadSyncListError on the second, and no
\* row other than that of the first is in books
C18_Witness ==
  \E p \in Procs :
    /\ proc[p].pc = "s_done"
    /\ proc[p].sync.status = "BadSyncListError"
    /\ proc[p].sync.loaded = <<IsbnA>>
    /\ proc[p].sync.line = LineGarbage
    /\ proc[p].sync.stdin = <<>>
    /\ \A r \in books[proc[p].dbpath] : r.isbn13 = IsbnA

\* C19: the retry loop of main_sync for a line that is an ISBN starts with
\* a query() call, makes a further call only after a call that returned
\* False and never more than LONG_RETRY_COUNT calls; a call that returned
\* True ends the loop, the ISBN is reported and the next line is read; after
\* LONG_RETRY_COUNT calls that returned False the next step ends main_sync
\* with SyncError, which happens in no other case, and an ended main_sync
\* reads no further line
C19_RetryCeiling ==
  [][\A p \in Procs :
       LET me == proc[p]
           nx == proc'[p]
       IN (me.sync.cmd = "sync" /\ nx # me) =>
            /\ me.pc # "s_done"
            /\ nx.sync.calls <= LONG_RETRY_COUNT
            /\ SyncCalls(p)
                 => /\ me.sync.calls < LONG_RETRY_COUNT
                    /\ nx.sync.calls = me.sync.calls + 1
                    /\ nx.arg = me.sync.isbn
            /\ nx.pc = "s_loop"
                 => \/ /\ me.pc = "s_line"
                       /\ nx.sync.calls = 0
                       /\ GoodCheckDigit(nx.sync.isbn)
                    \/ /\ me.pc = "done"
                       /\ me.outcome = "False"
                       /\ nx.sync.calls = me.sync.calls
                       /\ nx.sync.isbn = me.sync.isbn
                       /\ nx.sync.stdin = me.sync.stdin
            /\ (me.pc = "s_loop" /\ me.sync.calls < LONG_RETRY_COUNT)
                 => SyncCalls(p)
            /\ (me.pc = "done" /\ me.outcome = "True")
                 => /\ nx.pc = "s_line"
                    /\ me.sync.calls >= 1
                    /\ nx.sync.loaded = Append(me.sync.loaded, me.sync.isbn)
            /\ (me.pc = "s_loop" /\ me.sync.calls = LONG_RETRY_COUNT)
                 => /\ nx.pc = "s_done"
                    /\ nx.sync.status = "SyncError"
                    /\ nx.sync.stdin = me.sync.stdin
                    /\ books' = books
            /\ nx.sync.status = "SyncError"
                 => /\ me.pc = "s_loop"
                    /\ me.sync.calls = LONG_RETRY_COUNT]_vars

\* C19 witness: main_sync has ended with SyncError after LONG_RETRY_COUNT
\* calls for its first line, with a line unread and nothing reported
C19_Witness ==
  \E p \in Procs :
    /\ proc[p].pc = "s_done"
    /\ proc[p].sync.status = "SyncError"
    /\ proc[p].sync.calls = LONG_RETRY_COUNT
    /\ proc[p].sync.stdin # <<>>
    /\ proc[p].sync.loaded = <<>>

\* the rows of db that hold what the ISBNs reported by p were looked up as
BatchRows(p, db) ==
  {r \in books[db] :
     \E i \in 1..Len(proc[p].sync.loaded) :
       r.isbn13 = OneLookup(db, proc[p].sync.loaded[i])}

\* C20: no step of main_sync removes or alters a row of books, the step
\* that ends main_sync writes nothing, and when main_sync has ended with an
\* error every ISBN it reported before has its row, the same row as when it
\* was reported
C20_NoRollback ==
  [][\A p \in Procs :
       LET me == proc[p]
           nx == proc'[p]
       IN (me.sync.cmd = "sync" /\ nx # me) =>
            /\ \A db \in DBs : books[db] \subseteq books'[db]
            /\ nx.pc = "s_done" => books' = books
            /\ (nx.pc = "s_done" /\ nx.sync.status # "ok")
                 => \A i \in 1..Len(nx.sync.loaded) :
                      \E r \in books'[nx.dbpath] :
                        r.isbn13 = OneLookup(nx.dbpath, nx.sync.loaded[i])
            /\ nx.sync.loaded # me.sync.loaded
                 => \E r \in books[me.dbpath] :
                      r.isbn13 = OneLookup(me.dbpath, me.sync.isbn)]_vars

\* C20 witness: main_sync has ended with an error at its second line after
\* its own query() call inserted the row of the first line, and the row is
\* in books
C20_Witness ==
  \E p \in Procs :
    /\ proc[p].pc = "s_done"
    /\ proc[p].sync.status \in {"BadSyncListError", "SyncError"}
    /\ proc[p].sync.loaded # <<>>
    /\ BatchRows(p, proc[p].dbpath) # {}
    /\ BatchRows(p, proc[p].dbpath) = books[proc[p].dbpath]

\* C21: when the sync mode has ended, standard output holds the one line
\* true when main_sync returned, having loaded every ISBN of its input, and
\* the one line false when it raised
C21_SyncPrintsTrueOrFalse ==
  \A p \in Procs :
    proc[p].pc = "s_done" =>
      /\ proc[p].sync.status = "ok" => proc[p].sync.stdout = <<"true">>
      /\ proc[p].sync.status # "ok" => proc[p].sync.stdout = <<"false">>

\* the ISBNs of the lines of t that are not blank, in order
RECURSIVE CanonSeq(_)
CanonSeq(t) ==
  IF t = <<>> THEN <<>>
  ELSE IF Head(t) = LineBlank THEN CanonSeq(Tail(t))
  ELSE <<Canon(Head(t))>> \o CanonSeq(Tail(t))

\* the lines of its input that p's main_sync has read
Consumed(p) ==
  SubSeq(proc[p].sync.input, 1,
         Len(proc[p].sync.input) - Len(proc[p].sync.stdin))

\* the lines that p's main_sync has read before the one it is working on
Before(p) == SubSeq(Consumed(p), 1, Len(Consumed(p)) - 1)

\* C22: the ISBNs that main_sync has reported are, in input order, those of
\* the lines that are not blank which it has read, without the line it is
\* working on while it is in the retry loop of that line; each of them has
\* its record in books under what it is remapped to; and main_sync returns
\* only when it has read the whole input, so that every line that is not
\* blank has been reported
C22_SyncSucceedsOnlyIfAllLoaded ==
  \A p \in Procs :
    proc[p].sync.cmd = "sync" =>
      LET me == proc[p] IN
        /\ \A i \in 1..Len(me.sync.loaded) :
             HasBook(me.dbpath, OneLookup(me.dbpath, me.sync.loaded[i]))
        /\ me.pc = "s_line" => me.sync.loaded = CanonSeq(Consumed(p))
        /\ me.pc \notin {"s_line", "s_done"}
             => me.sync.loaded = CanonSeq(Before(p))
        /\ (me.pc = "s_done" /\ me.sync.status = "ok")
             => /\ me.sync.stdin = <<>>
                /\ me.sync.loaded = CanonSeq(me.sync.input)

\* C22 witness: main_sync has returned after it reported 9780131103627 for
\* the line 0-13-110362-8 and then 9780306406157 for the second line
C22_Witness ==
  \E p \in Procs :
    /\ proc[p].pc = "s_done"
    /\ proc[p].sync.status = "ok"
    /\ proc[p].sync.input = <<LineB10, LineA>>
    /\ proc[p].sync.loaded = <<IsbnB, IsbnA>>

\* the rows of db stored under what the remap table sends isbn to
StoredFor(db, isbn) == {r \in books[db] : r.isbn13 = OneLookup(db, isbn)}

\* C23: a step of info() or pic() leaves the store and the locks as they
\* are, is no external call, opens no lockfile and reads no access
\* parameters; when it returns from the SELECT, info() returns the json and
\* pic() the cover of the row stored under what its argument is remapped
\* to, which for pic() is None when the cover is NULL, and both return None
\* when there is no such row
C23_ReadsOnlyRead ==
  [][\A p \in Procs :
       LET me == proc[p]
           nx == proc'[p]
       IN (nx # me /\ nx.op \in {"info", "pic"}) =>
            /\ UNCHANGED <<store, lockOwner>>
            /\ nx.pc \in {"r_remap", "r_select", "done"}
            /\ nx.events = {}
            /\ nx.iparam = None
            /\ ~nx.lfd
            /\ (me.pc = "r_select" /\ nx.pc = "done") =>
                 LET rows == StoredFor(me.dbpath, me.arg) IN
                   /\ rows = {} => nx.outcome = None
                   /\ (rows # {} /\ nx.op = "info")
                        => \E r \in rows : nx.outcome = r.json
                   /\ (rows # {} /\ nx.op = "pic")
                        => \E r \in rows : nx.outcome = r.cover]_vars

\* C23 witness: pic() has returned None for an ISBN that is remapped to one
\* whose record is in books with a NULL cover
C23_Witness ==
  \E p \in Procs :
    /\ Done(p)
    /\ proc[p].op = "pic"
    /\ proc[p].arg # proc[p].isbn13
    /\ proc[p].outcome = None
    /\ \E r \in StoredFor(proc[p].dbpath, proc[p].arg) : r.cover = None

\* the next step of p's call to query(), info() or pic()
OwnStep(p) ==
  \/ query_remap(p) \/ query_cached(p) \/ query_param(p) \/ query_open(p)
  \/ query_lock(p) \/ isbndb_query_check(p) \/ json_query_return(p)
  \/ json_query_retry(p) \/ img_query_return(p) \/ img_query_retry(p)
  \/ isbndb_query_insert(p) \/ isbndb_query_return(p) \/ query_unlock(p)
  \/ query_close(p) \/ read_remap(p) \/ info_select(p) \/ pic_select(p)

\* p's call is info() or pic(), or query() for an ISBN whose record is in
\* books already, and has not returned or raised yet
ReadOnlyCall(p) ==
  \/ proc[p].op \in {"info", "pic"} /\ proc[p].pc \in {"r_remap", "r_select"}
  \/ /\ proc[p].op = "query"
     /\ \/ /\ proc[p].pc = "remap"
           /\ StoredFor(proc[p].dbpath, proc[p].arg) # {}
        \/ /\ proc[p].pc = "cached"
           /\ HasBook(proc[p].dbpath, proc[p].isbn13)

\* C24: a call of info() or pic(), and a call of query() that found its
\* ISBN cached, has opened no lockfile and asked for no lock, at any point
\* of the call; and while such a call has not returned its next step can be
\* taken, whoever holds a lock
C24_ReadsTakeNoLock ==
  \A p \in Procs :
    LET me == proc[p] IN
      /\ (me.op \in {"info", "pic"} \/ "hit" \in me.events)
           => /\ me.events \cap {"open", "lock"} = {}
              /\ ~me.lfd
              /\ me.iparam = None
              /\ me.pc \in {"r_remap", "r_select", "done"}
      /\ ReadOnlyCall(p) => ENABLED OwnStep(p)
      /\ (me.op = "query" /\ me.pc = "done" /\ me.outcome = "True"
            /\ me.events \cap {"open", "lock"} # {})
           => "miss" \in me.events

\* C24 witness: while one process sleeps the final delay with the lock
\* held, the query() of the other for the record just inserted is at its
\* cache check, and has opened no lockfile
C24_Witness ==
  \E p, q \in Procs :
    /\ HoldsLock(q)
    /\ proc[q].pc = "fsleep"
    /\ proc[p].op = "query"
    /\ proc[p].pc = "cached"
    /\ proc[p].dbpath = proc[q].dbpath
    /\ HasBook(proc[p].dbpath, proc[p].isbn13)
    /\ proc[p].events = {}

\* the exceptions of the store operations that follow the fetch
StoreErrors == {"OpenCursorError", "SQLError"}

\* C25: a query() whose isbndb_query has called the external service
\* returns True or False, whatever json_query and img_query met and
\* whatever the JSON text received holds as its image field; it raises
\* only when a store operation failed
C25_ExternalFaultsAbsorbed ==
  \A p \in Procs :
    (proc[p].op = "query" /\ "json" \in proc[p].events
       /\ proc[p].pc \in {"unlock", "close", "done"})
      => proc[p].outcome \in {"True", "False"} \cup StoreErrors

\* C26 as stated: query(), info() and pic() called with a string that is
\* no ISBN-13 raise InvalidISBNError, whatever the file system holds at
\* dbpath
C26_BadIsbnAlwaysInvalidISBNError ==
  \A p \in Procs :
    (proc[p].op \in {"query", "info", "pic"} /\ proc[p].pc = "done"
       /\ ~GoodCheckDigit(proc[p].arg))
      => proc[p].outcome = "InvalidISBNError"

\* C26: query(), info() and pic() called with a string that is no ISBN-13
\* raise in their parameter checks, having looked only whether dbpath is a
\* file: NoDatabaseFileError when it is not, InvalidISBNError when it is;
\* the store and the locks are as before, no lockfile was opened and no
\* external call made. The json, pic and query mode end with ISBNParamError
\* and print false for an argument that is no ISBN, without a call of
\* query(), and call query() only with the ISBN-13 of their argument
C26_BadIsbnRejectedEarly ==
  [][\A p \in Procs :
       LET me == proc[p]
           nx == proc'[p]
       IN nx # me =>
            /\ (me.pc = "idle" /\ ~GoodCheckDigit(nx.arg))
                 => /\ nx.pc = "done"
                    /\ nx.outcome = IF nx.dbpath \in dbfiles
                                    THEN "InvalidISBNError"
                                    ELSE "NoDatabaseFileError"
                    /\ nx.events = {}
                    /\ ~nx.lfd
                    /\ UNCHANGED <<store, lockOwner>>
            /\ (me.pc = "m_start" /\ Canon(me.sync.line) = NoIsbn)
                 => /\ nx.pc = "m_done"
                    /\ nx.sync.status = "ISBNParamError"
                    /\ nx.sync.stdout = <<"false">>
                    /\ nx.op = None
                    /\ nx.events = {}
                    /\ UNCHANGED <<store, lockOwner>>
            /\ nx.sync.status = "ISBNParamError" => me.pc = "m_start"
            /\ (me.pc = "m_start" /\ nx.op = "query")
                 => /\ GoodCheckDigit(nx.arg)
                    /\ nx.arg = Canon(me.sync.line)]_vars

\* C26 witness: the program has ended with ISBNParamError for the argument
\* garbage, and a call of query(), info() or pic() on the database file
\* with 9780306406158 has raised InvalidISBNError
C26_Witness ==
  \E p, q \in Procs :
    /\ proc[p].pc = "m_done"
    /\ proc[p].sync.line = LineGarbage
    /\ proc[p].sync.status = "ISBNParamError"
    /\ proc[p].op = None
    /\ Done(q)
    /\ proc[q].arg = IsbnBad
    /\ proc[q].dbpath \in dbfiles
    /\ proc[q].outcome = "InvalidISBNError"

\* the string s without its hyphens and spaces, with X for x
Plain(s) ==
  LET kept == SelectSeq(s, LAMBDA c : c \notin {"-", " "})
  IN [i \in 1..Len(kept) |-> IF kept[i] = "x" THEN "X" ELSE kept[i]]

\* ten characters d1..d9 c, with d1..d9 decimal digits and c a decimal
\* digit or X (which counts ten), such that
\* 10*d1 + 9*d2 + ... + 2*d9 + c is a multiple of eleven
GoodCheck10(n) ==
  /\ Len(n) = 10
  /\ \A x \in 1..9 : IsDigit(n[x])
  /\ IsDigit(n[10]) \/ n[10] = "X"
  /\ (10 * DigitVal(n[1]) + 9 * DigitVal(n[2]) + 8 * DigitVal(n[3])
       + 7 * DigitVal(n[4]) + 6 * DigitVal(n[5]) + 5 * DigitVal(n[6])
       + 4 * DigitVal(n[7]) + 3 * DigitVal(n[8]) + 2 * DigitVal(n[9])
       + (IF n[10] = "X" THEN 10 ELSE DigitVal(n[10]))) % 11 = 0

\* the process has applied norm_isbn and is_isbn13 to its string, and
\* norm_isbn again to the result
Normalized(p) == proc[p].pc \in {"f_again", "f_done"}

\* C27: when norm_isbn(s) returns t, norm_isbn(t) returns t and
\* is_isbn13(t) is true
C27_NormIsbnIdempotent ==
  \A p \in Procs :
    (Normalized(p) /\ proc[p].calc.ok)
      => /\ proc[p].calc.ok2
         /\ proc[p].calc.tt = proc[p].calc.t
         /\ proc[p].calc.v13t

\* C27 witness: norm_isbn has turned the ISBN-10 080442957x into
\* 9780804429573, and has returned 9780804429573 for 9780804429573
C27_Witness ==
  \E p \in Procs :
    /\ Normalized(p)
    /\ proc[p].calc.s = <<"0","8","0","4","4","2","9","5","7","x">>
    /\ proc[p].calc.ok
    /\ proc[p].calc.t =
         <<"9","7","8","0","8","0","4","4","2","9","5","7","3">>
    /\ proc[p].calc.ok2
    /\ proc[p].calc.tt = proc[p].calc.t
    /\ proc[p].calc.v13t

\* the process has applied every ISBN function to its string
Computed(p) == proc[p].pc = "f_done"

\* the ISBN-10 0306406152
Isbn10A == <<"0","3","0","6","4","0","6","1","5","2">>

\* C28: for a valid ISBN-10, norm_isbn returns 978, its nine digits and a
\* check digit with which the result passes is_isbn13;
\* compute_isbn_check("030640615") is "2" and norm_isbn("0306406152") is
\* 9780306406157; an ISBN-10 with a wrong check character, and a string
\* that has neither ten nor thirteen characters after the text
\* normalization, give False
C28_Isbn10Converted ==
  \A p \in Procs :
    Computed(p) =>
      LET c == proc[p].calc
          n == Plain(c.s)
      IN /\ GoodCheck10(n)
              => /\ c.ok
                 /\ Len(c.t) = 13
                 /\ SubSeq(c.t, 1, 12) = <<"9","7","8">> \o SubSeq(n, 1, 9)
                 /\ GoodCheckDigit(c.t)
                 /\ c.v13t
         /\ (Len(n) = 10 /\ ~GoodCheck10(n)) => ~c.ok
         /\ Len(n) \notin {10, 13} => ~c.ok
         /\ (Len(c.s) = 10 /\ \A x \in 1..9 : IsDigit(c.s[x]))
              => GoodCheck10(Append(SubSeq(c.s, 1, 9), c.chk))
         /\ c.s = Isbn10A => (c.chk = "2" /\ c.ok /\ c.t = IsbnA)

\* C28 witness: compute_isbn_check("030640615") has returned "2" and
\* norm_isbn("0306406152") has returned 9780306406157, which passes
\* is_isbn13
C28_Witness ==
  \E p \in Procs :
    /\ Computed(p)
    /\ proc[p].calc.s = Isbn10A
    /\ proc[p].calc.chk = "2"
    /\ proc[p].calc.ok
    /\ proc[p].calc.t = IsbnA
    /\ proc[p].calc.v13t

\* the process has applied norm_isbn and is_isbn13 to its string
Validated(p) == proc[p].pc \in {"f_valid", "f_again", "f_done"}

\* C29: is_isbn13(s) is true exactly when s is thirteen decimal digits
\* whose sum with the weights 1, 3, 1, 3, ... is 0 mod 10; and for a string
\* s of thirteen digits, is_isbn13(s) is true exactly when norm_isbn(s)
\* returns s
C29_IsIsbn13IsChecksum ==
  \A p \in Procs :
    Validated(p) =>
      LET c == proc[p].calc IN
        /\ c.v13s <=> GoodCheckDigit(c.s)
        /\ (Len(c.s) = 13 /\ \A x \in 1..13 : IsDigit(c.s[x]))
             => (c.v13s <=> (c.ok /\ c.t = c.s))

\* C29 witness: is_isbn13 has accepted 9790306406156, whose weighted sum is
\* 0 mod 10, and norm_isbn has returned it unchanged
C29_Witness ==
  \E p \in Procs :
    /\ Validated(p)
    /\ proc[p].calc.s =
         <<"9","7","9","0","3","0","6","4","0","6","1","5","6">>
    /\ proc[p].calc.v13s
    /\ proc[p].calc.ok
    /\ proc[p].calc.t = proc[p].calc.s

\* C30: in query(src13) with a row src13 -> dest13 in remap and no record
\* for dest13, isbndb_query works on dest13: json_query is called for
\* dest13 and the record is inserted with isbn13 = dest13; the call makes
\* no request for src13 and creates no row with isbn13 = src13
C30_MissFetchesDest ==
  [][\A p \in Procs :
       LET me == proc[p]
           src == me.arg
           dest == RemapDest(me.dbpath, me.arg)
       IN (me.op = "query" /\ proc'[p] # me /\ dest # NoIsbn
             /\ dest # src)
            => /\ me.pc \in {"jcall", "jsleep", "icall", "isleep", "insert"}
                    => me.isbn13 = dest
               /\ \A r \in books'[me.dbpath] \ books[me.dbpath] :
                    r.isbn13 = dest
               /\ RowsOf(me.dbpath, src)' = RowsOf(me.dbpath, src)]_vars

\* C30 witness: with the row 9780306406157 -> 9780131103627 in remap,
\* query("9780306406157") has fetched and inserted a record and returned
\* True; books holds a row for 9780131103627 and none for 9780306406157
C30_Witness ==
  \E p \in Procs :
    /\ Done(p) /\ proc[p].op = "query"
    /\ proc[p].arg = IsbnA
    /\ RemapDest(proc[p].dbpath, IsbnA) = IsbnB
    /\ proc[p].outcome = "True"
    /\ {"miss", "json", "insert"} \subseteq proc[p].events
    /\ RowsOf(proc[p].dbpath, IsbnB) # {}
    /\ RowsOf(proc[p].dbpath, IsbnA) = {}

\* the BEGIN statements
Begins == {"BEGIN DEFERRED", "BEGIN IMMEDIATE"}

\* the operation of p is outside its transaction: before BEGIN, or about
\* to return or raise
Outside(p) == proc[p].tx.at \in {None, "begin", "exit"}

\* C31: every store operation opens one transaction of its own, which is
\* not nested in another, and when the operation returns or raises the
\* transaction is over: it ended with COMMIT when the operation returns
\* and with ROLLBACK when a statement after BEGIN failed
C31_OwnTransactionEnded ==
  \A p \in Procs :
    LET me == proc[p]
        tx == me.tx
        n == Len(tx.hist)
    IN /\ me.pc \notin StorePcs => tx = NoTx
       /\ Outside(p)
            => (tx.mode = None /\ tx.lock = "none" /\ tx.row = {})
       /\ ~Outside(p) => tx.mode \in {"DEFERRED", "IMMEDIATE"}
       /\ n > 0 => /\ tx.hist[1] \in Begins
                   /\ \A i \in 2..n : tx.hist[i] \notin Begins
       /\ (tx.at = "exit" /\ tx.err = None)
            => (n > 1 /\ tx.hist[n] = "COMMIT")
       /\ (tx.at = "exit" /\ tx.err # None /\ n > 0)
            => tx.hist[n] = "ROLLBACK"
       /\ (tx.at = "exit" /\ n > 0)
            => \A i \in 1..(n - 1) : tx.hist[i] \notin {"COMMIT", "ROLLBACK"}

\* C31 witness: the INSERT of isbndb_query has failed on a row that
\* another process had committed, and the operation is about to raise
\* SQLError after BEGIN IMMEDIATE and ROLLBACK, with no transaction open
C31_Witness ==
  \E p \in Procs :
    /\ proc[p].pc = "insert"
    /\ proc[p].tx.at = "exit"
    /\ proc[p].tx.fn = "isbndb_query"
    /\ proc[p].tx.err = "SQLError"
    /\ proc[p].tx.hist = <<"BEGIN IMMEDIATE", "ROLLBACK">>
    /\ proc[p].tx.mode = None
    /\ HasBook(proc[p].dbpath, proc[p].isbn13)

\* C32: the existence check that query() makes before it takes the lock
\* runs in a deferred transaction, which only reads; the double-check of
\* isbndb_query, made while the lock is held, runs in an immediate
\* transaction; the insert runs in an immediate transaction
C32_TransactionModes ==
  \A p \in Procs :
    LET me == proc[p]
        tx == me.tx
    IN Len(tx.hist) > 0 =>
         /\ me.pc = "cached"
              => /\ tx.hist[1] = "BEGIN DEFERRED"
                 /\ tx.lock # "reserved"
                 /\ tx.row = {}
                 /\ ~me.lfd
                 /\ \A path \in AbsPaths : lockOwner[path] # p
         /\ me.pc = "check"
              => /\ tx.hist[1] = "BEGIN IMMEDIATE"
                 /\ tx.mode # None => tx.lock = "reserved"
                 /\ HoldsLock(p)
         /\ me.pc = "insert"
              => /\ tx.hist[1] = "BEGIN IMMEDIATE"
                 /\ tx.mode # None => tx.lock = "reserved"
                 /\ HoldsLock(p)

\* C32 witness: a process that holds the lock has read books in the
\* immediate transaction of the double-check, after its first check in a
\* deferred transaction had missed
C32_Witness ==
  \E p \in Procs :
    /\ proc[p].pc = "check"
    /\ proc[p].tx.hist = <<"BEGIN IMMEDIATE", "SELECT">>
    /\ proc[p].tx.mode = "IMMEDIATE"
    /\ "miss" \in proc[p].events
    /\ HoldsLock(p)

\* the JSON texts whose book object has no image field or has the image
\* field null
NoImageTexts == {"J_noimage", "J_nullimage"}

\* the rows of books that hold what process p fetched
OwnRows(p) ==
  {r \in books[proc[p].dbpath] :
     r.isbn13 = proc[p].isbn13 /\ r.json = proc[p].jinfo}

\* C33: with metadata whose book object has no image field, or has it
\* null, isbndb_query calls img_query not once, goes on to the insert,
\* stores a NULL cover and returns True; with an image URL whose download
\* succeeded, the cover stored is what img_query returned
C33_CoverIsWhatWasFetched ==
  \A p \in Procs :
    LET me == proc[p] IN
      /\ me.jinfo \in NoImageTexts
           => /\ me.pc \in {"insert", "fsleep"}
              /\ "img" \notin me.events
              /\ me.imgdata = None
              /\ me.pc = "fsleep"
                   => /\ me.outcome = "True"
                      /\ OwnRows(p) # {}
                      /\ \A r \in OwnRows(p) : r.cover = None
      /\ (me.jinfo = "J_url" /\ me.pc \in {"insert", "fsleep"})
           => /\ "img" \in me.events
              /\ me.pc = "insert" => me.imgdata \in ImgBytes
              /\ me.imgdata = None
                   => (me.outcome = "False" /\ "insert" \notin me.events)
              /\ (me.pc = "fsleep" /\ me.imgdata # None)
                   => /\ me.outcome = "True"
                      /\ me.imgdata \in ImgBytes
                      /\ OwnRows(p) # {}
                      /\ \A r \in OwnRows(p) : r.cover = me.imgdata

\* C33 witness: one process has inserted a record with a NULL cover for
\* metadata with "image": null, having made no image request, and the
\* other a record with the image it downloaded
C33_Witness ==
  \E p, q \in Procs :
    /\ proc[p].pc = "fsleep" /\ proc[p].jinfo = "J_nullimage"
    /\ "insert" \in proc[p].events /\ "img" \notin proc[p].events
    /\ \E r \in OwnRows(p) : r.cover = None
    /\ proc[q].pc = "fsleep" /\ proc[q].jinfo = "J_url"
    /\ "insert" \in proc[q].events
    /\ \E r \in OwnRows(q) : r.cover \in ImgBytes

\* a retry count from 1 to 8
GoodRetry(x) == x.t = "int" /\ x.v >= 1 /\ x.v <= 8

\* a delay that is a finite number and not negative
GoodDelay(d) ==
  \/ d.t \in {"int", "float"} /\ d.v >= 0
  \/ d.t = "bigint"

\* the delay d cut off at 15 seconds
AtMost15(d) == IF d.t = "bigint" \/ d.v > 15 THEN 15 ELSE d.v

\* C34: isbndb_query accepts retry counts from 1 to 8 and delays that are
\* finite and not negative; with any other value it raises LogicError
\* before the double-check, before any external call and before any write;
\* a delay above 15 becomes 15, so that no sleep is longer than 15 seconds,
\* and one call makes at most jretry + iretry <= 16 external attempts
C34_ParametersCheckedAndClamped ==
  \A p \in Procs :
    (proc[p].op = "isbndb_query" /\ proc[p].pc # "q_call") =>
      LET me == proc[p]
          a == me.par
          good == /\ GoodRetry(a.jretry) /\ GoodRetry(a.iretry)
                  /\ GoodDelay(a.jdelay) /\ GoodDelay(a.idelay)
                  /\ GoodDelay(a.fdelay)
      IN /\ ~good => /\ me.outcome = "LogicError"
                     /\ ~a.checked
                     /\ a.attempts = 0
                     /\ books[me.dbpath] = {}
         /\ good => /\ a.checked
                    /\ a.jd = AtMost15(a.jdelay)
                    /\ a.id = AtMost15(a.idelay)
                    /\ a.fd = AtMost15(a.fdelay)
                    /\ a.attempts <= a.jretry.v + a.iretry.v
                    /\ a.attempts <= 16
         /\ a.longest <= 15

\* the INSERT of p has met a row with its isbn13
InsertFailed(p) == "rollback" \in proc[p].events

\* C35: when a row for the ISBN exists as isbndb_query executes its INSERT,
\* which takes another writer that did not use the same lockfile, the
\* INSERT fails, the transaction is rolled back, isbndb_query raises
\* SQLError, the rows of books stay as they are, and query() unlocks and
\* closes the lockfile before the error leaves it
C35_InsertOnExistingRow ==
  [][\A p \in Procs :
       LET me == proc[p]
           nx == proc'[p]
       IN nx # me =>
            /\ (me.pc = "insert" /\ me.tx.at = "body"
                  /\ HasBook(me.dbpath, me.isbn13))
                 => /\ nx.tx.at = "rollback"
                    /\ nx.tx.err = "SQLError"
                    /\ nx.tx.mode = "IMMEDIATE"
                    /\ books' = books
            /\ (me.pc = "insert" /\ me.tx.at = "rollback")
                 => /\ nx.tx.at = "exit"
                    /\ nx.tx.mode = None /\ nx.tx.lock = "none"
                    /\ nx.tx.hist[Len(nx.tx.hist)] = "ROLLBACK"
                    /\ books' = books
            /\ InsertFailed(p)
                 => /\ books' = books
                    /\ "insert" \notin nx.events
                    /\ \E q \in Procs \ {p} :
                         /\ proc[q].isbn13 = me.isbn13
                         /\ proc[q].iparam \in AbsPaths
                         /\ proc[q].iparam # me.iparam
                    /\ (me.pc = "insert" /\ me.tx.at = "exit")
                         => /\ nx.pc = "unlock"
                            /\ nx.outcome = "SQLError"
                            /\ lockOwner'[me.iparam] = p
                    /\ me.pc = "unlock"
                         => /\ nx.pc = "close"
                            /\ lockOwner'[me.iparam] = NoProc
                    /\ me.pc = "close"
                         => /\ nx.pc = "done"
                            /\ nx.outcome = "SQLError"
                            /\ ~nx.lfd]_vars

\* C35 witness: two processes fetched the same book under two lockfiles;
\* one has inserted its record and the other's query() has raised SQLError
\* after the rollback, with its lockfile unlocked and closed
C35_Witness ==
  \E p, q \in Procs :
    /\ Done(p) /\ InsertFailed(p)
    /\ proc[p].outcome = "SQLError"
    /\ ~proc[p].lfd
    /\ lockOwner[proc[p].iparam] # p
    /\ "insert" \in proc[q].events
    /\ proc[q].isbn13 = proc[p].isbn13
    /\ proc[q].iparam # proc[p].iparam
    /\ Cardinality(RowsOf(proc[p].dbpath, proc[p].isbn13)) = 1

\* C36: when every external call returns, every sleep ends and every
\* process is scheduled, each call of query() returns or raises, and a
\* lock that is held is released: the holder makes at most jretry + iretry
\* attempts, so a process that waits for the lock gets it
C36_CallsEndAndLockIsFreed ==
  /\ \A p \in Procs : (proc[p].op = "query") ~> (proc[p].pc = "done")
  /\ \A p \in Procs : (proc[p].pc = "lock") ~> HoldsLock(p)
  /\ \A path \in AbsPaths :
       (lockOwner[path] # NoProc) ~> (lockOwner[path] = NoProc)

\* C36 witness: a process waits for the lock while its holder, whose first
\* attempt failed, sleeps before the next attempt
C36_Witness ==
  \E p, q \in Procs :
    /\ proc[p].pc = "lock"
    /\ proc[q].pc = "jsleep"
    /\ proc[p].iparam = proc[q].iparam
    /\ HoldsLock(q)

\* the remap rows of every database are ISBN-13 pairs: src13 and dest13
\* pass is_isbn13, they differ, and no two rows have the same src13
RemapRowsValid ==
  \A db \in DBs : \A r \in remap[db] :
    /\ is_isbn13(r.src13)
    /\ is_isbn13(r.dest13)
    /\ r.src13 # r.dest13
    /\ \A x \in remap[db] : x.src13 = r.src13 => x = r

\* a call of addRemap on an src13 that has a row leaves one row for it,
\* with the dest13 given, and the other rows as they were
ReplacesDest ==
  \A p \in Procs :
    LET nx == proc'[p]
        s == norm_isbn13(nx.adm.src)
        d == norm_isbn13(nx.adm.dest)
    IN (nx # proc[p] /\ nx.op = "addRemap" /\ nx.outcome = None
          /\ RemapDest(nx.dbpath, s) # NoIsbn)
         => /\ remap'[nx.dbpath] =
                 {x \in remap[nx.dbpath] : x.src13 # s}
                   \cup {[src13 |-> s, dest13 |-> d]}
            /\ Cardinality(remap'[nx.dbpath])
                 = Cardinality(remap[nx.dbpath])

\* C37 as stated: after any sequence of addRemap and dropRemap the remap
\* rows are pairs of different ISBN-13 numbers with one row per src13;
\* addRemap(src, dest) with src equal to dest raises SameISBNError and
\* changes nothing; addRemap on an src13 that has a row replaces its dest13
C37_SameArgumentsRaiseSameISBNError ==
  /\ []RemapRowsValid
  /\ [][/\ \A p \in Procs :
              LET nx == proc'[p] IN
                (nx # proc[p] /\ nx.op = "addRemap"
                   /\ nx.adm.src = nx.adm.dest)
                  => /\ nx.outcome = "SameISBNError"
                     /\ UNCHANGED <<store, lockOwner>>
        /\ ReplacesDest]_vars

\* C37: after any sequence of addRemap and dropRemap the remap rows are
\* pairs of different ISBN-13 numbers with one row per src13; addRemap(src,
\* dest) whose arguments are, without their hyphens, spaces and tabs, the
\* same ISBN-13 raises SameISBNError and changes nothing, and arguments
\* that are no ISBN-13, equal or not, raise InvalidISBNError and change
\* nothing; addRemap on an src13 that has a row replaces its dest13
C37_RemapRowsValid ==
  /\ []RemapRowsValid
  /\ [][/\ \A p \in Procs :
              LET nx == proc'[p]
                  s == norm_isbn13(nx.adm.src)
                  d == norm_isbn13(nx.adm.dest)
              IN (nx # proc[p] /\ nx.op = "addRemap")
                   => /\ (s = d /\ is_isbn13(s))
                           => /\ nx.outcome = "SameISBNError"
                              /\ UNCHANGED <<store, lockOwner>>
                      /\ ((~is_isbn13(s)) \/ (~is_isbn13(d)))
                           => /\ nx.outcome = "InvalidISBNError"
                              /\ UNCHANGED <<store, lockOwner>>
        /\ ReplacesDest]_vars

\* C37 witness: the command remap 9-780306406157 9781861972712 found
\* 9780306406157 remapped to 9780131103627 and has returned; the remap
\* table holds the one row from 9780306406157 to 9781861972712
C37_Witness ==
  \E p \in Procs :
    /\ proc[p].op = "addRemap"
    /\ proc[p].adm = [src |-> Hyphened(IsbnA), dest |-> IsbnC, r |-> IsbnB]
    /\ proc[p].outcome = None
    /\ remap["db1"] = {[src13 |-> IsbnA, dest13 |-> IsbnC]}

\* p is held up by another process: in fcntl.lockf while the other holds
\* the lock of the lockfile, in BEGIN IMMEDIATE while another connection
\* holds the reserved lock, or in the COMMIT of its row while another
\* connection holds a shared lock
WaitsForLockfile(p) ==
  /\ proc[p].pc = "lock"
  /\ lockOwner[proc[p].iparam] \notin {NoProc, p}

WaitsForDatabase(p) ==
  /\ proc[p].pc \in StorePcs
  /\ \/ /\ proc[p].tx.at = "begin"
        /\ BeginMode(proc[p]) = "IMMEDIATE"
        /\ WriteLocked(p)
     \/ /\ proc[p].tx.at = "commit"
        /\ proc[p].tx.row # {}
        /\ ReadLocked(p)

\* C38: a process that opens its lockfile or waits for its lock has no
\* transaction open and holds no lock of the database; the reserved lock
\* of a database is held only by a process that holds the lock of its
\* lockfile and is in the double-check or the insert of isbndb_query; and
\* the processes are never all held up by each other
C38_NoLockWaitInsideTransaction ==
  /\ \A p \in Procs :
       /\ proc[p].pc \in {"open", "lock"}
            => /\ proc[p].tx.at = None
               /\ proc[p].tx.mode = None
               /\ proc[p].tx.lock = "none"
       /\ proc[p].tx.lock = "reserved"
            => /\ proc[p].pc \in {"check", "insert"}
               /\ HoldsLock(p)
       /\ (HoldsLock(p) /\ proc[p].pc \notin {"check", "insert"})
            => proc[p].tx.mode = None
  /\ ~(\A p \in Procs : WaitsForLockfile(p) \/ WaitsForDatabase(p))

\* C38 witness: one process waits for the lock of its lockfile, with no
\* transaction open, while the process that holds this lock has inserted
\* its row in an immediate transaction and has not committed it
C38_Witness ==
  \E p, q \in Procs :
    /\ WaitsForLockfile(p)
    /\ proc[p].tx = NoTx
    /\ lockOwner[proc[p].iparam] = q
    /\ proc[q].pc = "insert"
    /\ proc[q].tx.lock = "reserved"
    /\ proc[q].tx.row # {}

\* the calls of query() of all processes are over, they were made for one
\* ISBN of one database, each took the lock of the lockfile, and no call
\* of json_query returned metadata
AllRacedInVain ==
  /\ \A p \in Procs :
       /\ Done(p)
       /\ proc[p].op = "query"
       /\ "lock" \in proc[p].events
       /\ \A k \in CallsOf(proc[p].log, "json_query") : ~proc[p].log[k].ok
  /\ \A p, q \in Procs :
       proc[p].dbpath = proc[q].dbpath /\ proc[p].isbn13 = proc[q].isbn13

\* the number of json_query calls that the processes in ps made
RECURSIVE JsonRequests(_)
JsonRequests(ps) ==
  IF ps = {} THEN 0
  ELSE LET p == CHOOSE x \in ps : TRUE IN
         Cardinality(CallsOf(proc[p].log, "json_query"))
           + JsonRequests(ps \ {p})

\* C39: when the processes race on one ISBN and the service never answers,
\* every one of them finds the ISBN uncached in its double-check under the
\* lock and makes jretry json_query calls of its own, jretry times the
\* number of processes in all; every call of query() returns False,
\* nothing is written and no image is asked for
C39_FailedFetchNotRemembered ==
  AllRacedInVain =>
    /\ \A p \in Procs :
         /\ proc[p].outcome = "False"
         /\ "dcmiss" \in proc[p].events
         /\ Cardinality(CallsOf(proc[p].log, "json_query")) = jretry
         /\ CallsOf(proc[p].log, "img_query") = {}
         /\ "insert" \notin proc[p].events
         /\ books[proc[p].dbpath] = {}
    /\ JsonRequests(Procs) = Cardinality(Procs) * jretry

\* C39 witness: both processes have called query() for 9780306406157,
\* each has taken the lock and made jretry json_query calls that all
\* failed, both calls have returned False and the books table is empty
C39_Witness ==
  /\ AllRacedInVain
  /\ \A p \in Procs :
       /\ proc[p].isbn13 = IsbnA
       /\ proc[p].outcome = "False"
       /\ Cardinality(CallsOf(proc[p].log, "json_query")) = jretry
  /\ books["db1"] = {}

\* C40: when isbndb_param has returned the path of a usable lockfile and
\* os.open of this path fails, query() raises OpenLockfileError and not
\* False: the call is over with the connection closed, it has no
\* descriptor of the lockfile and holds no lock, it has called neither
\* json_query nor img_query nor time.sleep, and the store and the locks
\* are as they were
C40_LockfileGoneRaises ==
  [][\A p \in Procs :
       LET me == proc[p]
           nx == proc'[p]
       IN (me.pc = "open" /\ nx # me /\ ~nx.lfd)
            => /\ "usable" \in me.events
               /\ me.iparam \in AbsPaths
               /\ nx.pc = "done"
               /\ nx.outcome = "OpenLockfileError"
               /\ nx.events \cap FetchEvents = {}
               /\ nx.log = <<>>
               /\ \A path \in AbsPaths : lockOwner'[path] # p
               /\ UNCHANGED <<store, lockOwner>>]_vars

\* C40 witness: a call of query() for which isbndb_param found a usable
\* lockfile has raised OpenLockfileError, with no call recorded and an
\* empty books table
C40_Witness ==
  \E p \in Procs :
    /\ Done(p)
    /\ proc[p].op = "query"
    /\ "usable" \in proc[p].events
    /\ proc[p].outcome = "OpenLockfileError"
    /\ ~proc[p].lfd
    /\ proc[p].log = <<>>
    /\ books[proc[p].dbpath] = {}

====
